---------------------------- MODULE Spec2Model ----------------------------
(***************************************************************************)
(* A model of the turtlecoin-v2 node core: the blockchain store           *)
(* (src/src/core/blockchain_storage.cpp), the LMDB wrapper it writes       *)
(* through (src/src/database/db_lmdb.h) and the transaction validator      *)
(* (src/include/staking/stake.h).                                          *)
(*                                                                         *)
(* Byte streams are sequences of symbols, one symbol per serialized field: *)
(* a varint or a 32-byte key is one natural number.  Field values are      *)
(* small numbers; SHA3 digests are numbers of a range of their own.  A     *)
(* reader decodes by position, as deserializer_t does, so that a stream    *)
(* read in another order than it was written yields other values.          *)
(***************************************************************************)
EXTENDS Naturals, Sequences, FiniteSets, TLC

(***************************************************************************)
(* Bounds of the model                                                     *)
(***************************************************************************)
\* number of distinct committed user transactions offered to put_block
NumUserTx == 2
\* block_index of an offered block ranges over 0..MaxBlockIndex
MaxBlockIndex == 2
\* timestamp of an offered block ranges over 1..MaxTimestamp
MaxTimestamp == 2
\* put_block is offered while fewer than MaxBlocks blocks are stored
MaxBlocks == 2
\* the memory map reports MAP_FULL / TXN_FULL only below this size
MaxMapSize == 1
\* threads of the node process that use the store
NumThreads == 2
\* calls of put_block and rewind in one run
MaxCalls == 3
\* largest number of outputs asked of get_random_outputs
MaxCount == 2
\* keys written through the single-operation helpers of a sub-database
MaxKey == 2
NumPaths == 2
MaxEnvs == 3
StartTime == 3
MaxNow == 6
MaxPackets == 3

\* config.h; the time constant is given in ticks of the model clock and the
\* size limit in peers of the model's packets (86400 s and 250 in the code)
PEER_PRUNE_TIME == 2
MAXIMUM_PEERS_EXCHANGED == 1
MINIMUM_VERSION == 1
\* config.h; 2000 ms in the code, in ticks of the connection timer here
DEFAULT_CONNECTION_TIMEOUT == 2

(***************************************************************************)
(* Program constants                                                       *)
(***************************************************************************)
GENESIS == 0
STAKER_REWARD == 1
NORMAL == 2
STAKE == 3
RECALL_STAKE == 4
STAKE_REFUND == 5

(***************************************************************************)
(* Codec: serializer_t / deserializer_t and Crypto::Hashing::sha3          *)
(***************************************************************************)
RECURSIVE Fold(_, _)
Fold(data, acc) ==
    IF data = <<>> THEN acc
    ELSE Fold(Tail(data), (acc * 31 + Head(data) + 1) % 7919)

\* Crypto::Hashing::sha3 over a byte stream: a digest symbol, never a field value
sha3(data) == 1000 + Fold(data, Len(data))

RECURSIVE Flatten(_)
Flatten(seqs) == IF seqs = <<>> THEN <<>> ELSE Head(seqs) \o Flatten(Tail(seqs))

\* TransactionOutput::serialize
serialize_output(o) == <<o.public_ephemeral, o.amount, o.commitment>>

\* TransactionOutput::hash
output_hash(o) == sha3(serialize_output(o))

\* StakerOutput::serialize
serialize_staker_output(o) == <<o.staker_id, o.amount>>

\* the outputs of a transaction: writer.varint(size), then each output
serialize_outputs(outputs) ==
    <<Len(outputs)>> \o Flatten([i \in 1..Len(outputs) |-> serialize_output(outputs[i])])

\* the staker outputs of a transaction: writer.varint(size), then each one
serialize_staker_outputs(outputs) ==
    <<Len(outputs)>> \o Flatten([i \in 1..Len(outputs) |-> serialize_staker_output(outputs[i])])

\* TransactionHeader::serialize_header
serialize_header(tx) == <<tx.type, tx.version>>

\* TransactionPrefix::serialize_prefix
serialize_prefix(tx) == serialize_header(tx) \o <<tx.unlock_block, tx.public_key>>

\* TransactionUserBody::serialize_body
serialize_body(tx) ==
    <<tx.nonce, tx.fee>> \o <<Len(tx.key_images)>> \o tx.key_images
        \o serialize_outputs(tx.outputs)

\* serialize_data of NormalTransactionData (length-prefixed extra), of
\* StakeTransactionData (four fields) and of RecallStakeTransactionData (five
\* fields); tx.data holds the fields in the order they are written
serialize_data(tx) ==
    IF tx.type = NORMAL THEN <<Len(tx.data)>> \o tx.data ELSE tx.data

\* CommittedTransactionSuffix::serialize_suffix
serialize_suffix(tx) == <<tx.signature_hash, tx.range_proof_hash>>

\* serialize_digest of a committed user transaction
serialize_digest(tx) == serialize_prefix(tx) \o serialize_body(tx) \o serialize_data(tx)

\* the serialize method of each transaction variant
serialize_transaction(tx) ==
    CASE tx.type = GENESIS ->
            serialize_prefix(tx) \o <<tx.secret_key>>
                \o serialize_outputs(tx.outputs)
      [] tx.type = STAKER_REWARD ->
            serialize_header(tx)
                \o serialize_staker_outputs(tx.staker_outputs)
                \o serialize_staker_outputs(tx.staker_penalties)
      [] tx.type = STAKE_REFUND ->
            serialize_prefix(tx) \o <<tx.secret_key, tx.recall_stake_tx>>
                \o serialize_outputs(tx.outputs)
      [] OTHER ->
            serialize_digest(tx) \o serialize_suffix(tx)

\* the hash method of each transaction variant
transaction_hash(tx) ==
    IF tx.type \in {GENESIS, STAKER_REWARD, STAKE_REFUND}
    THEN sha3(serialize_transaction(tx))
    ELSE sha3(<<sha3(serialize_digest(tx)), tx.signature_hash, tx.range_proof_hash>>)

(***************************************************************************)
(* Decoding by position.  A reader is a stream s and the index p of the    *)
(* next symbol; a read past the end of the stream throws.                  *)
(***************************************************************************)
Has(s, p, n) == p >= 1 /\ p + n - 1 <= Len(s)

Output(pe, amount, commitment) ==
    [public_ephemeral |-> pe, amount |-> amount, commitment |-> commitment]

StakerOutput(id, amount) == [staker_id |-> id, amount |-> amount]

\* a transaction with every field at its default
EmptyTx ==
    [type |-> 0, version |-> 1, unlock_block |-> 0, public_key |-> 0,
     secret_key |-> 0, recall_stake_tx |-> 0, nonce |-> 0, fee |-> 0,
     key_images |-> <<>>, outputs |-> <<>>, staker_outputs |-> <<>>,
     staker_penalties |-> <<>>, data |-> <<>>, signature_hash |-> 0,
     range_proof_hash |-> 0]

Thrown == [ok |-> FALSE, v |-> EmptyTx, p |-> 0]

\* count = reader.varint(); then count times outputs.emplace_back(reader)
deserialize_outputs(s, p) ==
    IF ~Has(s, p, 1) THEN [ok |-> FALSE, v |-> <<>>, p |-> 0]
    ELSE LET count == s[p] IN
         IF ~Has(s, p + 1, 3 * count) THEN [ok |-> FALSE, v |-> <<>>, p |-> 0]
         ELSE [ok |-> TRUE,
               v |-> [i \in 1..count |->
                        Output(s[p + 3 * i - 2], s[p + 3 * i - 1], s[p + 3 * i])],
               p |-> p + 1 + 3 * count]

\* count = reader.varint(); then count times staker_outputs.emplace_back(reader)
deserialize_staker_outputs(s, p) ==
    IF ~Has(s, p, 1) THEN [ok |-> FALSE, v |-> <<>>, p |-> 0]
    ELSE LET count == s[p] IN
         IF ~Has(s, p + 1, 2 * count) THEN [ok |-> FALSE, v |-> <<>>, p |-> 0]
         ELSE [ok |-> TRUE,
               v |-> [i \in 1..count |-> StakerOutput(s[p + 2 * i - 1], s[p + 2 * i])],
               p |-> p + 1 + 2 * count]

\* reader.keyV(): a length-prefixed vector of keys
deserialize_keys(s, p) ==
    IF ~Has(s, p, 1) THEN [ok |-> FALSE, v |-> <<>>, p |-> 0]
    ELSE LET count == s[p] IN
         IF ~Has(s, p + 1, count) THEN [ok |-> FALSE, v |-> <<>>, p |-> 0]
         ELSE [ok |-> TRUE, v |-> [i \in 1..count |-> s[p + i]], p |-> p + 1 + count]

\* genesis_transaction_t::deserialize
deserialize_genesis(s, p) ==
    IF ~Has(s, p, 5) THEN Thrown
    ELSE LET outs == deserialize_outputs(s, p + 5) IN
         IF ~outs.ok THEN Thrown
         ELSE [ok |-> TRUE,
               v |-> [EmptyTx EXCEPT !.type = s[p], !.version = s[p + 1],
                                     !.unlock_block = s[p + 2], !.public_key = s[p + 3],
                                     !.secret_key = s[p + 4], !.outputs = outs.v],
               p |-> outs.p]

\* staker_transaction_t::deserialize
deserialize_staker(s, p) ==
    IF ~Has(s, p, 2) THEN Thrown
    ELSE LET outs == deserialize_staker_outputs(s, p + 2) IN
         IF ~outs.ok THEN Thrown
         ELSE LET pens == deserialize_staker_outputs(s, outs.p) IN
              IF ~pens.ok THEN Thrown
              ELSE [ok |-> TRUE,
                    v |-> [EmptyTx EXCEPT !.type = s[p], !.version = s[p + 1],
                                          !.staker_outputs = outs.v,
                                          !.staker_penalties = pens.v],
                    p |-> pens.p]

\* stake_refund_transaction_t::deserialize
deserialize_stake_refund(s, p) ==
    IF ~Has(s, p, 6) THEN Thrown
    ELSE LET outs == deserialize_outputs(s, p + 6) IN
         IF ~outs.ok THEN Thrown
         ELSE [ok |-> TRUE,
               v |-> [EmptyTx EXCEPT !.type = s[p], !.version = s[p + 1],
                                     !.unlock_block = s[p + 2], !.public_key = s[p + 3],
                                     !.secret_key = s[p + 4], !.recall_stake_tx = s[p + 5],
                                     !.outputs = outs.v],
               p |-> outs.p]

\* deserialize_data of the three user transaction variants
deserialize_data(s, p, type) ==
    IF type = NORMAL THEN deserialize_keys(s, p)
    ELSE LET n == IF type = STAKE THEN 4 ELSE 5 IN
         IF ~Has(s, p, n) THEN [ok |-> FALSE, v |-> <<>>, p |-> 0]
         ELSE [ok |-> TRUE, v |-> [i \in 1..n |-> s[p + i - 1]], p |-> p + n]

\* deserialize of a committed user transaction: prefix, body, data, suffix
deserialize_committed(s, p, type) ==
    IF ~Has(s, p, 6) THEN Thrown
    ELSE LET kis == deserialize_keys(s, p + 6) IN
         IF ~kis.ok THEN Thrown
         ELSE LET outs == deserialize_outputs(s, kis.p) IN
              IF ~outs.ok THEN Thrown
              ELSE LET dat == deserialize_data(s, outs.p, type) IN
                   IF ~dat.ok \/ ~Has(s, dat.p, 2) THEN Thrown
                   ELSE [ok |-> TRUE,
                         v |-> [EmptyTx EXCEPT
                                  !.type = s[p], !.version = s[p + 1],
                                  !.unlock_block = s[p + 2], !.public_key = s[p + 3],
                                  !.nonce = s[p + 4], !.fee = s[p + 5],
                                  !.key_images = kis.v, !.outputs = outs.v,
                                  !.data = dat.v, !.signature_hash = s[dat.p],
                                  !.range_proof_hash = s[dat.p + 1]],
                         p |-> dat.p + 2]

(***************************************************************************)
(* block_t                                                                 *)
(***************************************************************************)
\* the elements of a std::set or the keys of a std::map in iteration order
RECURSIVE SetOrder(_)
SetOrder(S) ==
    IF S = {} THEN <<>>
    ELSE LET m == CHOOSE x \in S : \A y \in S : x <= y
         IN  <<m>> \o SetOrder(S \ {m})

\* block_t::serialize in mode BLOCK_DIGEST_FULL
serialize_block(b) ==
    LET has_producer == b.producer_public_key # 0 /\ b.producer_signature # 0 IN
    <<b.version, b.previous_blockhash, b.timestamp, b.block_index>>
        \o serialize_transaction(b.reward_tx)
        \o <<Cardinality(b.transactions)>> \o SetOrder(b.transactions)
        \o (IF has_producer THEN <<1, b.producer_public_key, b.producer_signature>>
            ELSE <<0>>)
        \o <<Len(b.validator_signatures)>> \o Flatten(b.validator_signatures)

\* block_t::hash
block_hash(b) == sha3(serialize_block(b))

EmptyBlock ==
    [version |-> 1, previous_blockhash |-> 0, timestamp |-> 0, block_index |-> 0,
     reward_tx |-> [EmptyTx EXCEPT !.type = STAKER_REWARD], transactions |-> {},
     producer_public_key |-> 0, producer_signature |-> 0,
     validator_signatures |-> <<>>]

\* block_t::deserialize
deserialize_block(s) ==
    LET bad == [ok |-> FALSE, v |-> EmptyBlock] IN
    IF ~Has(s, 1, 5) THEN bad
    ELSE LET type == s[5]
             reward == CASE type = GENESIS -> deserialize_genesis(s, 5)
                         [] type = STAKER_REWARD -> deserialize_staker(s, 5)
                         [] OTHER -> Thrown
         IN
         IF ~reward.ok THEN bad
         ELSE LET txs == deserialize_keys(s, reward.p) IN
              IF ~txs.ok \/ ~Has(s, txs.p, 1) THEN bad
              ELSE LET has_producer == s[txs.p] # 0
                       q == IF has_producer THEN txs.p + 3 ELSE txs.p + 1
                   IN
                   IF ~Has(s, q, 1) \/ ~Has(s, q + 1, 2 * s[q]) THEN bad
                   ELSE [ok |-> TRUE,
                         v |-> [version |-> s[1], previous_blockhash |-> s[2],
                                timestamp |-> s[3], block_index |-> s[4],
                                reward_tx |-> reward.v,
                                transactions |-> {txs.v[i] : i \in 1..Len(txs.v)},
                                producer_public_key |->
                                    IF has_producer THEN s[txs.p + 1] ELSE 0,
                                producer_signature |->
                                    IF has_producer THEN s[txs.p + 2] ELSE 0,
                                validator_signatures |->
                                    [i \in 1..s[q] |-> <<s[q + 2 * i - 1], s[q + 2 * i]>>]]]

(***************************************************************************)
(* The transactions and blocks offered to the store                        *)
(***************************************************************************)
\* user transaction i spends key image 10 + i and, from the second on, also
\* the key image of its predecessor
KeyImagesOf(i) == IF i = 1 THEN <<11>> ELSE <<10 + i, 9 + i>>

\* a committed_recall_stake_transaction_t
UserTx(i) ==
    [EmptyTx EXCEPT !.type = RECALL_STAKE, !.unlock_block = i, !.public_key = 70 + i,
                    !.fee = 1, !.key_images = KeyImagesOf(i),
                    !.outputs = <<Output(i, i, i), Output(20 + i, 5, 30 + i)>>,
                    !.data = <<100, 80, 81, 82, 83>>,
                    !.signature_hash = 90 + i, !.range_proof_hash = 95 + i]

UserTxs == {UserTx(i) : i \in 1..NumUserTx}

\* a genesis_transaction_t
GenesisTx ==
    [EmptyTx EXCEPT !.type = GENESIS, !.public_key = 7, !.secret_key = 8,
                    !.outputs = <<Output(41, 9, 42), Output(43, 9, 44)>>]

\* a staker_transaction_t
StakerTx ==
    [EmptyTx EXCEPT !.type = STAKER_REWARD, !.staker_outputs = <<StakerOutput(51, 3)>>]

\* a stake_refund_transaction_t
RefundTx ==
    [EmptyTx EXCEPT !.type = STAKE_REFUND, !.unlock_block = 3, !.public_key = 60,
                    !.secret_key = 61, !.recall_stake_tx = transaction_hash(UserTx(1)),
                    !.outputs = <<Output(62, 4, 63)>>]

\* the transaction sets a block may name
BlockTxSets == (SUBSET UserTxs) \cup {{RefundTx}}

\* block 0 carries the genesis transaction, later blocks a staker reward
Blocks ==
    {[EmptyBlock EXCEPT !.timestamp = ts, !.block_index = idx,
                        !.reward_tx = IF idx = 0 THEN GenesisTx ELSE StakerTx,
                        !.transactions = {transaction_hash(t) : t \in S}] :
        ts \in 1..MaxTimestamp, idx \in 0..MaxBlockIndex, S \in BlockTxSets}

\* the transaction vectors offered with a block
TxVectors ==
    {<<>>, <<RefundTx>>} \cup {<<t>> : t \in UserTxs}
        \cup {v \in UserTxs \X UserTxs : v[1] # v[2]}

(***************************************************************************)
(* State                                                                   *)
(***************************************************************************)
VARIABLES
    db,           \* committed contents of the six sub-databases of the node store
    map_size,     \* how often the memory map has been grown (mdb_env_set_mapsize)
    me_txn,       \* LMDB's writer lock: the thread whose write transaction is active, or 0
    m_open_txns,  \* LMDB::m_open_txns
    txn,          \* per thread, its LMDBTransaction: [active, view]
    write_mutex,  \* BlockchainStorage::write_mutex: the thread holding it, or 0
    pc,           \* per thread, where it is
    call,         \* per thread, the call in progress: operation, arguments, locals, result
    calls         \* number of writing calls made so far

\* the interned environments (db_lmdb.h)
VARIABLES
    instances,    \* the static map instances: id of the path -> environment
    envs,         \* every LMDB object created so far: [id, open, refs]
    inst,         \* per thread, the call of LMDB::instance: [path, db, handle, error]
    handles       \* every (path, handle) pair a call of LMDB::instance has returned

instance_vars == <<instances, envs, inst, handles>>

\* the peer database (PeerDB) and the clock it reads
VARIABLES
    peerlist,     \* the sub-database peerlist: peer id -> serialized network_peer_t
    now,          \* time(nullptr)
    ret           \* the last call of the peer database: [op, peer_id, last_seen, error]

peerdb_vars == <<peerlist, now, ret>>

\* the peer to peer node (P2P::Node) and its server (Networking::ZMQServer)
VARIABLES
    m_seed_mode,            \* Node::m_seed_mode
    m_connections,          \* ZMQServer::m_connections: the registered connections
    m_incoming_msgs,        \* ZMQServer::m_incoming_msgs
    m_outgoing_msgs,        \* ZMQServer::m_outgoing_msgs
    m_completed_handshake,  \* Node::m_completed_handshake
    m_messages,             \* Node::m_messages, the queue read by the application
    log                     \* every packet that has reached the node: [from, is_server, packet]

node_vars == <<m_seed_mode, m_connections, m_incoming_msgs, m_outgoing_msgs,
               m_completed_handshake, m_messages, log>>

\* the variables outside the node store
\* the ROUTER socket of the server and the threads that use it
VARIABLES
    socket_mutex, \* ZMQServer::m_socket_mutex: "free" or the thread that holds it
    wire,         \* the frames handed to the socket, in the order of the sends
    writer,       \* the outgoing thread: its position, its message, the targets left
    reader        \* the incoming thread: its position

socket_vars == <<socket_mutex, wire, writer, reader>>

\* a connection attempt of the node
VARIABLES
    conn,         \* the call of Node::connect: its position, its host, its result
    elapsed,      \* the time waited on cv_connected, in ticks
    m_clients     \* Node::m_clients: the outgoing queue of each client kept

connect_vars == <<conn, elapsed, m_clients>>

\* a transaction on its way into a block
VARIABLES
    uncommitted,  \* the transaction as its sender built it
    committed     \* the result of to_committed, or NoTx

tx_vars == <<uncommitted, committed>>

\* the staking engine (Core::StakingEngine)
VARIABLES
    candidates,   \* the sub-database m_db_candidates: candidate key -> candidate_node_t
    stakes,       \* the sub-database m_db_stakes: the stake records
    staked        \* the last call of add_stake: [tx, error]

staking_vars == <<candidates, stakes, staked>>

\* an election of block producers and validators
VARIABLES
    election      \* the call of run_election: its inputs and its result

election_vars == <<election>>

\* the connection manager of the node
VARIABLES
    manager       \* the round of Node::connection_manager in progress

manager_vars == <<manager>>

\* the shutdown of the node, of its server and of its clients
VARIABLES
    shutdown      \* the destructor in progress

shutdown_vars == <<shutdown>>

\* the interned singletons and the handles on them
VARIABLES
    intern        \* the intern table and the objects it has created

intern_vars == <<intern>>

\* the poller of the node, its keepalive thread, a block being built and a
\* transaction being mined
VARIABLES
    poller,       \* Node::poller: the thread and what its handler has thrown
    keepalive,    \* Node::send_keepalives: the thread and what it has sent
    built,        \* a block on its way through producer_sign and validator_sign
    miner         \* a call of mine: the nonce, the target, the result

late_vars == <<poller, keepalive, built, miner>>

ext_vars == <<staking_vars, election_vars, manager_vars, shutdown_vars, intern_vars,
              late_vars>>

more_vars == <<socket_vars, connect_vars, tx_vars, ext_vars>>

other_vars == <<instance_vars, peerdb_vars, node_vars, more_vars>>

\* the variables of the node store and of the threads that use it
store_vars == <<db, map_size, me_txn, m_open_txns, txn, write_mutex, call, calls>>

\* the variables of the sections before the staking engine
base_vars == <<store_vars, pc, instance_vars, peerdb_vars, node_vars, socket_vars,
               connect_vars, tx_vars>>

vars == <<db, map_size, me_txn, m_open_txns, txn, write_mutex, pc, call, calls, other_vars>>

Threads == 1..NumThreads

EmptyMap == [k \in {} |-> <<>>]

EmptyDb ==
    [blocks |-> EmptyMap, block_indexes |-> EmptyMap, block_timestamps |-> EmptyMap,
     transactions |-> EmptyMap, key_images |-> EmptyMap,
     transaction_outputs |-> EmptyMap]

NoTxn == [active |-> FALSE, view |-> EmptyDb]

\* what a validation is given besides the transaction: the form of the
\* transaction, the hashes of its ring participants, and the verdicts of the
\* checks that do not read the store (construction, proof of work and fee;
\* range proof; ring signatures)
NoInputs ==
    [committed |-> TRUE, ring_participants |-> <<>>, check |-> "SUCCESS",
     range_proof |-> TRUE, signatures |-> TRUE]

NoCall ==
    [op |-> "none", block |-> EmptyBlock, txs |-> <<>>, index |-> 0, i |-> 0,
     count |-> 0, error |-> "SUCCESS", results |-> <<>>, inputs |-> NoInputs]

(***************************************************************************)
(* LMDB: mdb_put, mdb_del, mdb_get on the view of a transaction            *)
(***************************************************************************)
\* what the library may answer to a write or a commit: the map or the dirty
\* list can be full only while the map has not reached its final size
WriteResults == {"SUCCESS", "LMDB_ERROR"}
        \cup (IF map_size < MaxMapSize THEN {"LMDB_MAP_FULL", "LMDB_TXN_FULL"} ELSE {})

\* LMDBTransaction::put: mdb_put with flags 0 stores or overwrites
txn_put(view, dbi, key, value) ==
    [view EXCEPT ![dbi] = [k \in DOMAIN @ \cup {key} |-> IF k = key THEN value ELSE @[k]]]

\* LMDBTransaction::del: mdb_del answers MDB_NOTFOUND for an absent key; the
\* data argument is ignored in a database without MDB_DUPSORT
txn_del(view, dbi, key) ==
    IF key \in DOMAIN view[dbi]
    THEN [error |-> "SUCCESS",
          view |-> [view EXCEPT ![dbi] = [k \in DOMAIN @ \ {key} |-> @[k]]]]
    ELSE [error |-> "LMDB_NOTFOUND", view |-> view]

\* LMDBTransaction::exists / LMDBDatabase::exists
exists(view, dbi, key) == key \in DOMAIN view[dbi]

\* LMDBDatabase::count
count(view, dbi) == Cardinality(DOMAIN view[dbi])

(***************************************************************************)
(* BlockchainStorage: the read operations, on a snapshot d of the store    *)
(***************************************************************************)
\* BlockchainStorage::get_transaction
get_transaction(d, txn_hash) ==
    IF ~exists(d, "transactions", txn_hash)
    THEN [error |-> "DB_TRANSACTION_NOT_FOUND", tx |-> EmptyTx, block_hash |-> 0]
    ELSE LET s == d.transactions[txn_hash] IN
         IF ~Has(s, 1, 2)
         THEN [error |-> "EXCEPTION", tx |-> EmptyTx, block_hash |-> 0]
         ELSE LET bh == s[1]
                  type == s[2]
                  r == CASE type = GENESIS -> deserialize_genesis(s, 2)
                         [] type = STAKER_REWARD -> deserialize_staker(s, 2)
                         [] type \in {NORMAL, STAKE, RECALL_STAKE} ->
                                deserialize_committed(s, 2, type)
                         [] type = STAKE_REFUND -> deserialize_stake_refund(s, 2)
                         [] OTHER -> Thrown
              IN
              IF type \notin {GENESIS, STAKER_REWARD, NORMAL, STAKE, RECALL_STAKE,
                              STAKE_REFUND}
              THEN [error |-> "UNKNOWN_TRANSACTION_TYPE", tx |-> EmptyTx, block_hash |-> bh]
              ELSE IF ~r.ok
              THEN [error |-> "EXCEPTION", tx |-> EmptyTx, block_hash |-> 0]
              ELSE [error |-> "SUCCESS", tx |-> r.v, block_hash |-> bh]

NoBlock(error) == [error |-> error, block |-> EmptyBlock, txs |-> <<>>]

\* the end of get_block: got holds what get_transaction answered for each
\* hash of the block; the first failure decides
get_block_result(block, got) ==
    LET bad == {i \in 1..Len(got) : got[i].error # "SUCCESS"} IN
    IF bad = {}
    THEN [error |-> "SUCCESS", block |-> block, txs |-> [i \in 1..Len(got) |-> got[i].tx]]
    ELSE IF got[CHOOSE i \in bad : \A j \in bad : i <= j].error = "EXCEPTION"
    THEN NoBlock("EXCEPTION")
    ELSE NoBlock("DB_TRANSACTION_NOT_FOUND")

\* the loop of get_block over block.transactions, a std::set
get_block_transactions(d, b) ==
    IF ~b.ok THEN NoBlock("EXCEPTION")
    ELSE get_block_result(b.v, [i \in 1..Cardinality(b.v.transactions) |->
                                   get_transaction(d, SetOrder(b.v.transactions)[i])])

\* BlockchainStorage::get_block(block_hash)
get_block(d, hash) ==
    IF ~exists(d, "blocks", hash) THEN NoBlock("DB_BLOCK_NOT_FOUND")
    ELSE get_block_transactions(d, deserialize_block(d.blocks[hash]))

\* BlockchainStorage::get_block(block_index)
get_block_by_index(d, block_index) ==
    IF ~exists(d, "block_indexes", block_index) THEN NoBlock("DB_BLOCK_NOT_FOUND")
    ELSE get_block(d, d.block_indexes[block_index][1])

\* BlockchainStorage::get_block_count
get_block_count(d) == count(d, "blocks")

\* BlockchainStorage::block_exists(block_index)
block_exists(d, block_index) == exists(d, "block_indexes", block_index)

\* BlockchainStorage::transaction_exists
transaction_exists(d, txn_hash) == exists(d, "transactions", txn_hash)

\* BlockchainStorage::get_transaction_output(output_hash)
get_transaction_output(d, hash) ==
    LET none == [error |-> "DB_TRANSACTION_OUTPUT_NOT_FOUND",
                 output |-> Output(0, 0, 0), unlock_block |-> 0] IN
    IF ~exists(d, "transaction_outputs", hash) THEN none
    ELSE LET s == d.transaction_outputs[hash] IN
         IF ~Has(s, 1, 4) THEN [none EXCEPT !.error = "EXCEPTION"]
         ELSE [error |-> "SUCCESS", output |-> Output(s[1], s[2], s[3]),
               unlock_block |-> s[4]]

\* a key_image_exists that leaves its loop after the first key image
key_image_exists_first(d, key_images) ==
    key_images # <<>> /\ exists(d, "key_images", key_images[1])

\* BlockchainStorage::key_image_exists(std::vector<crypto_key_image_t>)
key_image_exists(d, key_images) ==
    \E i \in 1..Len(key_images) : exists(d, "key_images", key_images[i])

\* BlockchainStorage::output_count
output_count(d) == count(d, "transaction_outputs")

(***************************************************************************)
(* BlockchainStorage: the write operations, on the view of a transaction   *)
(***************************************************************************)
\* BlockchainStorage::put_key_image: the mdb_put it issues
put_key_image(key_image) ==
    [dbi |-> "key_images", key |-> key_image, value |-> <<>>]

\* BlockchainStorage::put_transaction_output: the mdb_put it issues; the
\* unlock block is written in front of the output
put_transaction_output(output, unlock_block) ==
    [dbi |-> "transaction_outputs", key |-> output_hash(output),
     value |-> <<unlock_block>> \o serialize_output(output)]

IsUserTx(tx) == tx.type \in {NORMAL, STAKE, RECALL_STAKE}

\* the mdb_puts of BlockchainStorage::put_transaction, in program order:
\* the transaction followed by its block hash, the key images, the outputs
transaction_puts(tx, hash) ==
    <<[dbi |-> "transactions", key |-> transaction_hash(tx),
       value |-> serialize_transaction(tx) \o <<hash>>]>>
    \o (IF IsUserTx(tx)
        THEN [i \in 1..Len(tx.key_images) |-> put_key_image(tx.key_images[i])]
        ELSE <<>>)
    \o (IF IsUserTx(tx) \/ tx.type \in {GENESIS, STAKE_REFUND}
        THEN [i \in 1..Len(tx.outputs) |->
                  put_transaction_output(tx.outputs[i], tx.unlock_block)]
        ELSE <<>>)

RECURSIVE apply_puts(_, _, _)
\* the first n of the puts applied to the view
apply_puts(view, puts, n) ==
    IF n = 0 THEN view
    ELSE LET w == puts[n] IN txn_put(apply_puts(view, puts, n - 1), w.dbi, w.key, w.value)

\* BlockchainStorage::put_transaction: the put numbered fail_at answers err
\* and ends the function; fail_at = 0 when no put fails
put_transaction(view, tx, hash, fail_at, err) ==
    LET puts == transaction_puts(tx, hash) IN
    IF fail_at = 0
    THEN [error |-> "SUCCESS", view |-> apply_puts(view, puts, Len(puts))]
    ELSE [error |-> err, view |-> apply_puts(view, puts, fail_at - 1)]

(***************************************************************************)
(* LMDB environment                                                        *)
(***************************************************************************)
\* mdb_env_set_mapsize as called by LMDB::expand: the library answers EINVAL
\* when it sees a write transaction active in the environment.  It reads the
\* environment without a lock, so seen is what that read observes.
mdb_env_set_mapsize(seen) ==
    IF seen # 0 THEN "EINVAL" ELSE "SUCCESS"

\* LMDB::expand(pages): refuses while the wrapper counts an open transaction
expand(open_txns, seen) ==
    IF open_txns # 0 THEN "LMDB_ERROR" ELSE mdb_env_set_mapsize(seen)

\* LMDB::transaction_unregister
transaction_unregister(open_txns) == IF open_txns > 0 THEN open_txns - 1 ELSE open_txns

\* the errors MDB_CHECK_TXN_EXPAND reacts to
IsFull(error) == error \in {"LMDB_MAP_FULL", "LMDB_TXN_FULL"}

\* no environment has been opened
NoInstance == [path |-> 0, db |-> 0, handle |-> 0, error |-> "SUCCESS"]

InstanceInit ==
    /\ instances = EmptyMap
    /\ envs = <<>>
    /\ inst = [t \in Threads |-> NoInstance]
    /\ handles = {}

\* the peer database is empty and the clock stands at StartTime
PeerDBInit ==
    /\ peerlist = EmptyMap
    /\ now = StartTime
    /\ ret = [op |-> "none", peer_id |-> "", last_seen |-> 0, error |-> "SUCCESS"]

\* the server is bound, nothing has been received
NodeInit ==
    /\ m_connections = {}
    /\ m_incoming_msgs = <<>>
    /\ m_outgoing_msgs = <<>>
    /\ m_completed_handshake = {}
    /\ m_messages = <<>>
    /\ log = <<>>

StoreInit ==
    /\ db = EmptyDb
    /\ map_size = 0
    /\ me_txn = 0
    /\ m_open_txns = 0
    /\ txn = [t \in Threads |-> NoTxn]
    /\ write_mutex = 0
    /\ pc = [t \in Threads |-> "idle"]
    /\ call = [t \in Threads |-> NoCall]
    /\ calls = 0

\* no thread is at the socket, nothing has been sent
NoMessage == [to |-> "", payload |-> <<>>]

SocketInit ==
    /\ socket_mutex = "free"
    /\ wire = <<>>
    /\ writer = [pc |-> "idle", message |-> NoMessage, targets |-> <<>>, to_delete |-> {}]
    /\ reader = "idle"

\* the node has no client
ConnectInit ==
    /\ conn = [pc |-> "idle", host |-> "", error |-> "SUCCESS", signalled |-> FALSE]
    /\ elapsed = 0
    /\ m_clients = EmptyMap

\* no transaction
NoTx == [type |-> "none"]

\* no candidate, no stake, no call of add_stake yet
StakingInit ==
    /\ candidates = EmptyMap
    /\ stakes = {}
    /\ staked = [tx |-> NoTx, error |-> "SUCCESS"]

\* no election has run
NoElection ==
    [pc |-> "idle", last_round_blocks |-> <<>>, maximum_keys |-> 0,
     producers |-> <<>>, validators |-> <<>>]

ElectionInit == election = NoElection

\* the node has not been started
ManagerInit ==
    manager = [pc |-> "idle", rounds |-> 0, outgoing |-> 0, delta |-> 0,
               drawn |-> {}, attempted |-> {}]

\* the node is not started: no worker thread, the server and a client built
ShutdownInit ==
    shutdown = [pc |-> "idle", m_running |-> FALSE, crashed |-> FALSE,
                worker |-> [w \in {"connection_manager", "poller", "keepalive",
                                   "peer_exchange"} |-> "none"],
                owner |-> [o \in {"server", "client"} |->
                             [pc |-> "alive", m_running |-> FALSE, socket |-> "open",
                              thread |-> [s \in {"outgoing", "incoming"} |-> "none"]]],
                released_use |-> {}]

\* no singleton has been asked for
InternInit ==
    intern = [instances |-> [k \in {"environment", "staking_engine", "blockchain_store"}
                                |-> EmptyMap],
              objects |-> <<>>]

\* the poller thread is not started and has taken no message
PollerInit == poller = [pc |-> "idle", polled |-> <<>>]

\* the node is not started: no keepalive thread, no client, nothing sent
KeepaliveInit ==
    keepalive = [pc |-> "idle", m_running |-> FALSE, dtor |-> "none", m_server |-> "alive",
                 m_clients |-> {}, periods |-> 0, sent |-> {}, replied |-> FALSE,
                 poked |-> {}]

\* an empty signature
NoSignature == [key |-> 0, digest |-> <<>>]

\* block_t as its constructor leaves it: no producer, no validator signature;
\* of the signed fields the model keeps the outputs of the reward transaction
DefaultBlock ==
    [reward_outputs |-> 0, producer_public_key |-> 0, producer_signature |-> NoSignature,
     validator_signatures |-> <<>>]

\* no block is being built
BuiltInit == built = [pc |-> "idle", block |-> DefaultBlock, thrown |-> FALSE, valid |-> FALSE]

\* the width of the nonce in bits, in place of 64
NonceBits == 2

\* UINT64_MAX
UINT64_MAX == 2 ^ NonceBits - 1

Nonces == 0..UINT64_MAX

\* a transaction as its constructor leaves it (uint64_t nonce = 0), not
\* being mined; pow_zeros is pow_hash().leading_zeros() of the transaction
\* as a function of its nonce
MinerInit ==
    miner = [pc |-> "idle", nonce |-> 0, pow_zeros |-> [n \in Nonces |-> 0], zeros |-> 0,
             hash |-> 0, tried |-> <<>>, result |-> FALSE]

LateInit == PollerInit /\ KeepaliveInit /\ BuiltInit /\ MinerInit

ExtInit ==
    /\ StakingInit /\ ElectionInit /\ ManagerInit /\ ShutdownInit /\ InternInit
    /\ LateInit

CoreInit == StoreInit /\ InstanceInit /\ PeerDBInit /\ NodeInit /\ SocketInit /\ ConnectInit

BaseInit == CoreInit /\ ExtInit

Init == BaseInit /\ m_seed_mode = FALSE /\ uncommitted = NoTx /\ committed = NoTx

\* a call returns: the thread is free for the next call
Return(t) ==
    /\ pc[t] = "done"
    /\ pc' = [pc EXCEPT ![t] = "idle"]
    /\ call' = [call EXCEPT ![t] = NoCall]
    /\ UNCHANGED <<db, map_size, me_txn, m_open_txns, txn, write_mutex, calls, other_vars>>

(***************************************************************************)
(* BlockchainStorage::put_block                                            *)
(***************************************************************************)
\* a sanity check that compares the hashes without their order
put_block_check_unordered(block, transactions) ==
    IF Len(transactions) # Cardinality(block.transactions) THEN "BLOCK_TXN_MISMATCH"
    ELSE IF {transaction_hash(transactions[i]) : i \in 1..Len(transactions)}
                # block.transactions
    THEN "BLOCK_TXN_ORDER"
    ELSE "SUCCESS"

\* the sanity check of put_block before the write lock is taken
put_block_check(block, transactions) ==
    LET block_tx_hashes == SetOrder(block.transactions)
        txn_hashes == [i \in 1..Len(transactions) |-> transaction_hash(transactions[i])]
    IN
    IF Len(transactions) # Cardinality(block.transactions) THEN "BLOCK_TXN_MISMATCH"
    ELSE IF sha3(block_tx_hashes) # sha3(txn_hashes) THEN "BLOCK_TXN_ORDER"
    ELSE "SUCCESS"

\* put_block is entered and runs its sanity check
PutBlockCall(t, block, transactions) ==
    /\ pc[t] = "idle"
    /\ get_block_count(db) < MaxBlocks
    /\ calls < MaxCalls
    /\ calls' = calls + 1
    /\ LET error == put_block_check(block, transactions) IN
       /\ call' = [call EXCEPT ![t] = [NoCall EXCEPT !.op = "put_block", !.block = block,
                                                    !.txs = transactions, !.error = error]]
       /\ pc' = [pc EXCEPT ![t] = IF error = "SUCCESS" THEN "lock" ELSE "done"]
    /\ UNCHANGED <<db, map_size, me_txn, m_open_txns, txn, write_mutex, other_vars>>

\* std::scoped_lock lock(write_mutex)
PutBlockLock(t) ==
    /\ pc[t] = "lock"
    /\ write_mutex = 0
    /\ write_mutex' = t
    /\ pc' = [pc EXCEPT ![t] = "begin"]
    /\ UNCHANGED <<db, map_size, me_txn, m_open_txns, txn, call, calls, other_vars>>

\* try_again: m_db_env->transaction(), i.e. LMDBTransaction::txn_setup
PutBlockBegin(t) ==
    /\ pc[t] = "begin"
    /\ me_txn = 0
    /\ me_txn' = t
    /\ m_open_txns' = m_open_txns + 1
    /\ txn' = [txn EXCEPT ![t] = [active |-> TRUE, view |-> db]]
    /\ pc' = [pc EXCEPT ![t] = "reward"]
    /\ UNCHANGED <<db, map_size, write_mutex, call, calls, other_vars>>

\* a step of a write transaction got the error: MDB_CHECK_TXN_EXPAND aborts,
\* expands and jumps to try_again, or the error is returned and the
\* transaction, and the scoped lock of a caller that is locked, go out of scope
TxnFailed(t, error, try_again, locked) ==
    /\ txn' = [txn EXCEPT ![t] = NoTxn]
    /\ me_txn' = 0
    /\ m_open_txns' = transaction_unregister(m_open_txns)
    /\ IF IsFull(error) /\ expand(transaction_unregister(m_open_txns), 0) = "SUCCESS"
       THEN /\ map_size' = map_size + 1
            /\ pc' = [pc EXCEPT ![t] = try_again]
            /\ UNCHANGED <<write_mutex, call>>
       ELSE /\ pc' = [pc EXCEPT ![t] = "done"]
            /\ call' = [call EXCEPT ![t].error = error]
            /\ write_mutex' = IF locked THEN 0 ELSE write_mutex
            /\ UNCHANGED map_size
    /\ UNCHANGED <<db, calls, other_vars>>

\* a put_block whose error path commits what the attempt wrote so far
PutBlockFailedCommits(t, error) ==
    /\ db' = txn[t].view
    /\ txn' = [txn EXCEPT ![t] = NoTxn]
    /\ me_txn' = 0
    /\ m_open_txns' = transaction_unregister(m_open_txns)
    /\ pc' = [pc EXCEPT ![t] = "done"]
    /\ call' = [call EXCEPT ![t].error = error]
    /\ write_mutex' = 0
    /\ UNCHANGED <<map_size, calls, other_vars>>

PutBlockFailed(t, error) == TxnFailed(t, error, "begin", TRUE)

\* a step of put_block succeeded with the new view and goes on at next
PutBlockStepped(t, view, next, i) ==
    /\ txn' = [txn EXCEPT ![t].view = view]
    /\ pc' = [pc EXCEPT ![t] = next]
    /\ call' = [call EXCEPT ![t].i = i]
    /\ UNCHANGED <<db, map_size, me_txn, m_open_txns, write_mutex, calls, other_vars>>

\* put_transaction of the block reward transaction
PutBlockReward(t) ==
    /\ pc[t] = "reward"
    /\ LET b == call[t].block
           n == Len(transaction_puts(b.reward_tx, block_hash(b)))
       IN
       \E fail_at \in 0..n, err \in WriteResults \ {"SUCCESS"} :
           LET r == put_transaction(txn[t].view, b.reward_tx, block_hash(b), fail_at, err) IN
           IF r.error = "SUCCESS"
           THEN PutBlockStepped(t, r.view, IF call[t].txs = <<>> THEN "block" ELSE "txs", 1)
           ELSE PutBlockFailed(t, r.error)

\* one round of the loop over the supplied transactions
PutBlockTransaction(t) ==
    /\ pc[t] = "txs"
    /\ LET b == call[t].block
           i == call[t].i
           tx == call[t].txs[i]
           n == Len(transaction_puts(tx, block_hash(b)))
       IN
       \E fail_at \in 0..n, err \in WriteResults \ {"SUCCESS"} :
           LET r == put_transaction(txn[t].view, tx, block_hash(b), fail_at, err) IN
           IF r.error = "SUCCESS"
           THEN PutBlockStepped(t, r.view,
                                IF i = Len(call[t].txs) THEN "block" ELSE "txs", i + 1)
           ELSE PutBlockFailed(t, r.error)

\* db_tx->put(block_hash, block)
PutBlockBlock(t) ==
    /\ pc[t] = "block"
    /\ LET b == call[t].block IN
       \E r \in WriteResults :
           IF r = "SUCCESS"
           THEN PutBlockStepped(t, txn_put(txn[t].view, "blocks", block_hash(b),
                                           serialize_block(b)), "index", 0)
           ELSE PutBlockFailed(t, r)

\* db_tx->put(block.block_index, block_hash)
PutBlockIndex(t) ==
    /\ pc[t] = "index"
    /\ LET b == call[t].block IN
       \E r \in WriteResults :
           IF r = "SUCCESS"
           THEN PutBlockStepped(t, txn_put(txn[t].view, "block_indexes", b.block_index,
                                           <<block_hash(b)>>), "timestamp", 0)
           ELSE PutBlockFailed(t, r)

\* db_tx->put(block.timestamp, block_hash)
PutBlockTimestamp(t) ==
    /\ pc[t] = "timestamp"
    /\ LET b == call[t].block IN
       \E r \in WriteResults :
           IF r = "SUCCESS"
           THEN PutBlockStepped(t, txn_put(txn[t].view, "block_timestamps", b.timestamp,
                                           <<block_hash(b)>>), "commit", 0)
           ELSE PutBlockFailed(t, r)

\* db_tx->commit(): on success the view becomes the store
PutBlockCommit(t) ==
    /\ pc[t] = "commit"
    /\ \E r \in WriteResults :
           IF r = "SUCCESS"
           THEN /\ db' = txn[t].view
                /\ txn' = [txn EXCEPT ![t] = NoTxn]
                /\ me_txn' = 0
                /\ m_open_txns' = transaction_unregister(m_open_txns)
                /\ write_mutex' = 0
                /\ pc' = [pc EXCEPT ![t] = "done"]
                /\ call' = [call EXCEPT ![t].error = "SUCCESS"]
                /\ UNCHANGED <<map_size, calls, other_vars>>
           ELSE PutBlockFailed(t, r)

put_block(t) ==
    \/ \E block \in Blocks, transactions \in TxVectors : PutBlockCall(t, block, transactions)
    \/ PutBlockLock(t)
    \/ PutBlockBegin(t)
    \/ PutBlockReward(t)
    \/ PutBlockTransaction(t)
    \/ PutBlockBlock(t)
    \/ PutBlockIndex(t)
    \/ PutBlockTimestamp(t)
    \/ PutBlockCommit(t)

(***************************************************************************)
(* BlockchainStorage::rewind and del_block                                 *)
(***************************************************************************)
\* BlockchainStorage::del_key_image: the mdb_del it issues
del_key_image(key_image) == [dbi |-> "key_images", key |-> key_image]

\* BlockchainStorage::del_transaction_output: the mdb_del it issues
del_transaction_output(hash) == [dbi |-> "transaction_outputs", key |-> hash]

\* the mdb_dels of BlockchainStorage::del_transaction, in program order
transaction_dels(tx) ==
    (IF IsUserTx(tx)
     THEN [i \in 1..Len(tx.key_images) |-> del_key_image(tx.key_images[i])]
     ELSE <<>>)
    \o (IF IsUserTx(tx) \/ tx.type \in {GENESIS, STAKE_REFUND}
        THEN [i \in 1..Len(tx.outputs) |-> del_transaction_output(output_hash(tx.outputs[i]))]
        ELSE <<>>)
    \o <<[dbi |-> "transactions", key |-> transaction_hash(tx)]>>

RECURSIVE apply_dels(_, _, _, _, _)
\* the dels from number k on, up to the first that fails: the one numbered
\* fail_at answers err, one for an absent key answers LMDB_NOTFOUND
apply_dels(view, dels, k, fail_at, err) ==
    IF k > Len(dels) THEN [error |-> "SUCCESS", view |-> view]
    ELSE IF k = fail_at THEN [error |-> err, view |-> view]
    ELSE LET r == txn_del(view, dels[k].dbi, dels[k].key) IN
         IF r.error # "SUCCESS" THEN r
         ELSE apply_dels(r.view, dels, k + 1, fail_at, err)

\* BlockchainStorage::del_transaction
del_transaction(view, tx, fail_at, err) ==
    apply_dels(view, transaction_dels(tx), 1, fail_at, err)

\* rewind is entered: the target block must exist, the loop starts at the
\* block count
RewindCall(t, block_index) ==
    /\ pc[t] = "idle"
    /\ calls < MaxCalls
    /\ calls' = calls + 1
    /\ IF ~block_exists(db, block_index)
       THEN /\ pc' = [pc EXCEPT ![t] = "done"]
            /\ call' = [call EXCEPT ![t] = [NoCall EXCEPT !.op = "rewind",
                             !.index = block_index, !.error = "DB_BLOCK_NOT_FOUND"]]
       ELSE /\ pc' = [pc EXCEPT ![t] = "rewind_loop"]
            /\ call' = [call EXCEPT ![t] = [NoCall EXCEPT !.op = "rewind",
                             !.index = block_index, !.i = get_block_count(db),
                             !.count = get_block_count(db)]]
    /\ UNCHANGED <<db, map_size, me_txn, m_open_txns, txn, write_mutex, other_vars>>

\* del_block is entered with what its get_block(block_index) answered
DelBlockCall(t, r) ==
    IF r.error # "SUCCESS"
    THEN /\ pc' = [pc EXCEPT ![t] = "done"]
         /\ call' = [call EXCEPT ![t].error = r.error]
    ELSE /\ pc' = [pc EXCEPT ![t] = "del_begin"]
         /\ call' = [call EXCEPT ![t].block = r.block, ![t].txs = r.txs]

\* the loop test of rewind and the entry of del_block(i)
RewindLoop(t) ==
    /\ pc[t] = "rewind_loop"
    /\ IF call[t].i > call[t].index
       THEN DelBlockCall(t, get_block_by_index(db, call[t].i))
       ELSE /\ pc' = [pc EXCEPT ![t] = "done"]
            /\ call' = [call EXCEPT ![t].error = "SUCCESS"]
    /\ UNCHANGED <<db, map_size, me_txn, m_open_txns, txn, write_mutex, calls, other_vars>>

\* try_again of del_block: m_blocks->transaction()
DelBlockBegin(t) ==
    /\ pc[t] = "del_begin"
    /\ me_txn = 0
    /\ me_txn' = t
    /\ m_open_txns' = m_open_txns + 1
    /\ txn' = [txn EXCEPT ![t] = [active |-> TRUE, view |-> db]]
    /\ pc' = [pc EXCEPT ![t] = "del_txs"]
    /\ UNCHANGED <<db, map_size, write_mutex, call, calls, other_vars>>

DelBlockFailed(t, error) == TxnFailed(t, error, "del_begin", FALSE)

DelBlockStepped(t, view, next) ==
    /\ txn' = [txn EXCEPT ![t].view = view]
    /\ pc' = [pc EXCEPT ![t] = next]
    /\ UNCHANGED <<db, map_size, me_txn, m_open_txns, write_mutex, call, calls, other_vars>>

\* the loop of del_block over the transactions get_block returned
DelBlockTransactions(t) ==
    /\ pc[t] = "del_txs"
    /\ LET txs == call[t].txs
           dels == Flatten([i \in 1..Len(txs) |-> transaction_dels(txs[i])])
       IN
       \E fail_at \in 0..Len(dels), err \in WriteResults \ {"SUCCESS"} :
           LET r == apply_dels(txn[t].view, dels, 1, fail_at, err) IN
           IF r.error = "SUCCESS"
           THEN DelBlockStepped(t, r.view, "del_timestamp")
           ELSE DelBlockFailed(t, r.error)

\* one mdb_del of del_block: the library's answer, or what the key gives
DelBlockDel(t, at, dbi, key, next) ==
    /\ pc[t] = at
    /\ \E r \in WriteResults :
           LET d == txn_del(txn[t].view, dbi, key) IN
           IF r # "SUCCESS" THEN DelBlockFailed(t, r)
           ELSE IF d.error # "SUCCESS" THEN DelBlockFailed(t, d.error)
           ELSE DelBlockStepped(t, d.view, next)

\* txn->del(block.timestamp, block.hash())
DelBlockTimestamp(t) ==
    DelBlockDel(t, "del_timestamp", "block_timestamps", call[t].block.timestamp, "del_index")

\* txn->del(block.block_index)
DelBlockIndex(t) ==
    DelBlockDel(t, "del_index", "block_indexes", call[t].block.block_index, "del_block")

\* txn->del(block.hash())
DelBlockBlock(t) ==
    DelBlockDel(t, "del_block", "blocks", block_hash(call[t].block), "del_commit")

\* txn->commit() of del_block; rewind goes on with the block below
DelBlockCommit(t) ==
    /\ pc[t] = "del_commit"
    /\ \E r \in WriteResults :
           IF r = "SUCCESS"
           THEN /\ db' = txn[t].view
                /\ txn' = [txn EXCEPT ![t] = NoTxn]
                /\ me_txn' = 0
                /\ m_open_txns' = transaction_unregister(m_open_txns)
                /\ pc' = [pc EXCEPT ![t] = "rewind_loop"]
                /\ call' = [call EXCEPT ![t].i = @ - 1]
                /\ UNCHANGED <<map_size, write_mutex, calls, other_vars>>
           ELSE DelBlockFailed(t, r)

rewind(t) ==
    \/ \E block_index \in 0..MaxBlockIndex : RewindCall(t, block_index)
    \/ RewindLoop(t)
    \/ DelBlockBegin(t)
    \/ DelBlockTransactions(t)
    \/ DelBlockTimestamp(t)
    \/ DelBlockIndex(t)
    \/ DelBlockBlock(t)
    \/ DelBlockCommit(t)

(***************************************************************************)
(* TransactionValidator::validate                                          *)
(***************************************************************************)
\* BlockchainStorage::get_transaction_output(std::vector<crypto_hash_t>)
get_transaction_outputs(d, output_hashes) ==
    LET bad == {i \in 1..Len(output_hashes) :
                   get_transaction_output(d, output_hashes[i]).error # "SUCCESS"}
    IN
    IF bad = {} THEN "SUCCESS"
    ELSE get_transaction_output(d, output_hashes[CHOOSE i \in bad : \A j \in bad : i <= j]).error

\* TransactionValidator::validate(const uncommitted_transaction_t &)
validate_uncommitted(d, tx, inputs) ==
    IF inputs.check # "SUCCESS" THEN inputs.check
    ELSE IF ~inputs.range_proof THEN "TX_INVALID_RANGE_PROOF"
    ELSE IF key_image_exists(d, tx.key_images) THEN "TX_KEY_IMAGE_ALREADY_EXISTS"
    ELSE IF get_transaction_outputs(d, inputs.ring_participants) # "SUCCESS"
    THEN get_transaction_outputs(d, inputs.ring_participants)
    ELSE IF ~inputs.signatures THEN "TX_INVALID_RING_SIGNATURE"
    ELSE "SUCCESS"

\* TransactionValidator::validate(const transaction_t &)
validate_committed(d, tx, inputs) ==
    IF inputs.check # "SUCCESS" THEN inputs.check
    ELSE IF IsUserTx(tx) /\ key_image_exists(d, tx.key_images)
    THEN "TX_KEY_IMAGE_ALREADY_EXISTS"
    ELSE IF tx.type = GENESIS /\ block_exists(d, 0) THEN "TX_GENESIS_ALREADY_EXISTS"
    ELSE "SUCCESS"

\* the validations offered: an uncommitted transaction is a user transaction
ValidateInputs(tx) ==
    {in \in [committed : BOOLEAN,
             ring_participants : {<<>>, <<output_hash(Output(1, 1, 1))>>},
             check : {"SUCCESS", "TX_LOW_FEE"},
             range_proof : BOOLEAN, signatures : BOOLEAN] :
        IF in.committed
        THEN in.ring_participants = <<>> /\ in.range_proof /\ in.signatures
        ELSE IsUserTx(tx)}

\* a validation: it reads the store and answers
Validate(t, tx, inputs) ==
    /\ pc[t] = "idle"
    /\ pc' = [pc EXCEPT ![t] = "done"]
    /\ call' = [call EXCEPT ![t] =
           [NoCall EXCEPT !.op = "validate", !.txs = <<tx>>, !.inputs = inputs,
                          !.error = IF inputs.committed
                                    THEN validate_committed(db, tx, inputs)
                                    ELSE validate_uncommitted(db, tx, inputs)]]
    /\ UNCHANGED <<db, map_size, me_txn, m_open_txns, txn, write_mutex, calls, other_vars>>

validate(t) ==
    \E tx \in UserTxs \cup {GenesisTx} : \E inputs \in ValidateInputs(tx) :
        Validate(t, tx, inputs)

(***************************************************************************)
(* BlockchainStorage::get_random_outputs                                   *)
(***************************************************************************)
\* the values Crypto::random_hash may take: the hash of every output of the
\* transactions on offer, one below all of them and one above
RandomHashes ==
    {0, 9999} \cup {output_hash(tx.outputs[i]) : i \in 1..2, tx \in UserTxs \cup {GenesisTx}}
              \cup {output_hash(RefundTx.outputs[1])}

\* cursor->get(random_hash, MDB_SET_RANGE): the first entry whose key is at
\* least random_hash
cursor_set_range(d, random_hash) ==
    LET keys == {k \in DOMAIN d.transaction_outputs : k >= random_hash} IN
    IF keys = {} THEN [error |-> "LMDB_NOTFOUND", key |-> 0, value |-> <<>>]
    ELSE LET key == CHOOSE k \in keys : \A j \in keys : k <= j IN
         [error |-> "SUCCESS", key |-> key, value |-> d.transaction_outputs[key]]

\* results returned in the order in which they were drawn
unsorted_outputs(results) == results

\* std::sort of the results, by operator< of transaction_output_t
sort_outputs(results) ==
    LET byhash == SetOrder({output_hash(results[i]) : i \in 1..Len(results)}) IN
    [i \in 1..Len(byhash) |->
        results[CHOOSE j \in 1..Len(results) : output_hash(results[j]) = byhash[i]]]

\* get_random_outputs is entered: the store must hold count outputs
GetRandomOutputsCall(t, block_index, count_) ==
    /\ pc[t] = "idle"
    /\ pc' = [pc EXCEPT ![t] = IF output_count(db) < count_ THEN "done" ELSE "random_loop"]
    /\ call' = [call EXCEPT ![t] =
           [NoCall EXCEPT !.op = "get_random_outputs", !.index = block_index,
                          !.count = count_,
                          !.error = IF output_count(db) < count_
                                    THEN "DB_TRANSACTION_OUTPUT_NOT_FOUND" ELSE "SUCCESS"]]
    /\ UNCHANGED <<db, map_size, me_txn, m_open_txns, txn, write_mutex, calls, other_vars>>

\* one round of the sampling loop on the entry the cursor answered: the value
\* is read as an output followed by its unlock block
GetRandomOutputsRound(t, found) ==
    LET s == found.value
        output == Output(s[1], s[2], s[3])
        unlock_block == s[4]
        results == call[t].results
    IN
    IF found.error = "LMDB_NOTFOUND" THEN UNCHANGED <<pc, call>>
    ELSE IF ~Has(s, 1, 4)
    THEN /\ pc' = [pc EXCEPT ![t] = "done"]
         /\ call' = [call EXCEPT ![t].error = "EXCEPTION", ![t].results = <<>>]
    ELSE IF output_hash(output) # found.key \/ unlock_block < call[t].index
    THEN UNCHANGED <<pc, call>>
    ELSE IF \E i \in 1..Len(results) : output_hash(results[i]) = output_hash(output)
    THEN UNCHANGED <<pc, call>>
    ELSE /\ call' = [call EXCEPT ![t].results = Append(results, output)]
         /\ UNCHANGED pc

\* while (results.size() < count), and the sort once the loop has ended
GetRandomOutputsLoop(t) ==
    /\ pc[t] = "random_loop"
    /\ IF Len(call[t].results) < call[t].count
       THEN \E random_hash \in RandomHashes :
                GetRandomOutputsRound(t, cursor_set_range(db, random_hash))
       ELSE /\ pc' = [pc EXCEPT ![t] = "done"]
            /\ call' = [call EXCEPT ![t].results = sort_outputs(@)]
    /\ UNCHANGED <<db, map_size, me_txn, m_open_txns, txn, write_mutex, calls, other_vars>>

get_random_outputs(t) ==
    \/ \E block_index \in 0..MaxBlockIndex, count_ \in 0..MaxCount :
           GetRandomOutputsCall(t, block_index, count_)
    \/ GetRandomOutputsLoop(t)

(***************************************************************************)
(* The store used by one thread                                            *)
(***************************************************************************)
Next ==
    \/ put_block(1)
    \/ rewind(1)
    \/ validate(1)
    \/ get_random_outputs(1)
    \/ Return(1)

Spec == Init /\ [][Next]_vars

(***************************************************************************)
(* LMDBDatabase::put and LMDBDatabase::del, the single-operation helpers,  *)
(* called by several threads on one sub-database.  Each step is one call   *)
(* into the library or one access to the shared counter.  m_db_mutex is    *)
(* held from before mdb_txn_begin until after transaction_register, that   *)
(* is exactly while its holder is at "h_register" and owns the writer lock.*)
(***************************************************************************)
HelperCall(t, op, key) ==
    /\ pc[t] = "idle"
    /\ pc' = [pc EXCEPT ![t] = "h_begin"]
    /\ call' = [call EXCEPT ![t] = [NoCall EXCEPT !.op = op, !.index = key]]
    /\ UNCHANGED <<db, map_size, me_txn, m_open_txns, txn, write_mutex, calls, other_vars>>

\* try_again: transaction(), LMDBTransaction::txn_setup: mdb_txn_begin waits
\* for the writer lock of the environment
HelperBegin(t) ==
    /\ pc[t] = "h_begin"
    /\ me_txn = 0
    /\ me_txn' = t
    /\ txn' = [txn EXCEPT ![t] = [active |-> TRUE, view |-> db]]
    /\ pc' = [pc EXCEPT ![t] = "h_register"]
    /\ call' = [call EXCEPT ![t].error = "SUCCESS"]
    /\ UNCHANGED <<db, map_size, m_open_txns, write_mutex, calls, other_vars>>

\* LMDB::transaction_register, the last statement of txn_setup
HelperRegister(t) ==
    /\ pc[t] = "h_register"
    /\ m_open_txns' = m_open_txns + 1
    /\ pc' = [pc EXCEPT ![t] = "h_op"]
    /\ UNCHANGED <<db, map_size, me_txn, txn, write_mutex, call, calls, other_vars>>

\* what txn->put or txn->del answers on the view
helper_op(view, op, key) ==
    IF op = "put" THEN [error |-> "SUCCESS", view |-> txn_put(view, "key_images", key, <<>>)]
    ELSE txn_del(view, "key_images", key)

\* txn->put(key, value) or txn->del(key); an error leads to abort(), called
\* by MDB_CHECK_TXN_EXPAND or by the destructor on return
HelperOp(t) ==
    /\ pc[t] = "h_op"
    /\ \E r \in WriteResults :
           LET d == helper_op(txn[t].view, call[t].op, call[t].index)
               error == IF r # "SUCCESS" THEN r ELSE d.error
           IN
           /\ txn' = [txn EXCEPT ![t].view = IF error = "SUCCESS" THEN d.view ELSE @]
           /\ call' = [call EXCEPT ![t].error = error]
           /\ pc' = [pc EXCEPT ![t] = IF error = "SUCCESS" THEN "h_commit" ELSE "h_abort"]
    /\ UNCHANGED <<db, map_size, me_txn, m_open_txns, write_mutex, calls, other_vars>>

\* a transaction object that goes out of scope without aborting
HelperAbortLeaks(t) ==
    /\ pc[t] = "h_abort"
    /\ pc' = [pc EXCEPT ![t] = "h_unregister"]
    /\ UNCHANGED <<db, map_size, me_txn, m_open_txns, txn, write_mutex, call, calls, other_vars>>

\* LMDBTransaction::abort up to mdb_txn_abort: the writer lock is released
HelperAbort(t) ==
    /\ pc[t] = "h_abort"
    /\ me_txn' = 0
    /\ txn' = [txn EXCEPT ![t] = NoTxn]
    /\ pc' = [pc EXCEPT ![t] = "h_unregister"]
    /\ UNCHANGED <<db, map_size, m_open_txns, write_mutex, call, calls, other_vars>>

\* LMDBTransaction::commit up to mdb_txn_commit: on success the view becomes
\* the store; either way the transaction is over
HelperCommit(t) ==
    /\ pc[t] = "h_commit"
    /\ \E r \in WriteResults :
           /\ db' = IF r = "SUCCESS" THEN txn[t].view ELSE db
           /\ call' = [call EXCEPT ![t].error = r]
    /\ me_txn' = 0
    /\ txn' = [txn EXCEPT ![t] = NoTxn]
    /\ pc' = [pc EXCEPT ![t] = "h_unregister"]
    /\ UNCHANGED <<map_size, m_open_txns, write_mutex, calls, other_vars>>

\* LMDB::transaction_unregister, called by abort and by commit; then
\* MDB_CHECK_TXN_EXPAND goes on to expand, or the helper returns
HelperUnregister(t) ==
    /\ pc[t] = "h_unregister"
    /\ m_open_txns' = transaction_unregister(m_open_txns)
    /\ pc' = [pc EXCEPT ![t] = IF IsFull(call[t].error) THEN "h_expand" ELSE "done"]
    /\ UNCHANGED <<db, map_size, me_txn, txn, write_mutex, call, calls, other_vars>>

\* LMDB::expand up to its test of open_transactions(); when the test fails
\* the macro falls through and the helper returns the error it holds
HelperExpand(t) ==
    /\ pc[t] = "h_expand"
    /\ pc' = [pc EXCEPT ![t] = IF m_open_txns # 0 THEN "done" ELSE "h_mapsize"]
    /\ UNCHANGED <<db, map_size, me_txn, m_open_txns, txn, write_mutex, call, calls, other_vars>>

\* the end of LMDB::expand: mdb_env_set_mapsize; on success goto try_again.
\* expand holds m_mutex, txn_setup does not take it: a thread that has begun
\* its write transaction and has not yet registered it writes the
\* environment's active transaction while this call reads it, and the read
\* may or may not observe it.
HelperMapsize(t) ==
    /\ pc[t] = "h_mapsize"
    /\ \E seen \in {0, me_txn} :
           IF mdb_env_set_mapsize(seen) = "SUCCESS"
           THEN /\ map_size' = map_size + 1
                /\ pc' = [pc EXCEPT ![t] = "h_begin"]
           ELSE /\ pc' = [pc EXCEPT ![t] = "done"]
                /\ UNCHANGED map_size
    /\ UNCHANGED <<db, me_txn, m_open_txns, txn, write_mutex, call, calls, other_vars>>

helper(t) ==
    \/ \E op \in {"put", "del"}, key \in 1..MaxKey : HelperCall(t, op, key)
    \/ HelperBegin(t)
    \/ HelperRegister(t)
    \/ HelperOp(t)
    \/ HelperAbort(t)
    \/ HelperCommit(t)
    \/ HelperUnregister(t)
    \/ HelperExpand(t)
    \/ HelperMapsize(t)

NextLMDB == \E t \in Threads : helper(t) \/ Return(t)

SpecLMDB == Init /\ [][NextLMDB]_vars

(***************************************************************************)
(* Properties of put_block                                                 *)
(***************************************************************************)
\* every entry put_block writes for the block and the transaction is in d
transaction_stored(d, tx, hash) ==
    /\ exists(d, "transactions", transaction_hash(tx))
    /\ d.transactions[transaction_hash(tx)] = serialize_transaction(tx) \o <<hash>>
    /\ IsUserTx(tx) => \A i \in 1..Len(tx.key_images) : exists(d, "key_images", tx.key_images[i])
    /\ IsUserTx(tx) \/ tx.type \in {GENESIS, STAKE_REFUND} =>
           \A i \in 1..Len(tx.outputs) :
               exists(d, "transaction_outputs", output_hash(tx.outputs[i]))

block_stored(d, block, transactions) ==
    /\ exists(d, "blocks", block_hash(block))
    /\ d.blocks[block_hash(block)] = serialize_block(block)
    /\ exists(d, "block_indexes", block.block_index)
    /\ d.block_indexes[block.block_index] = <<block_hash(block)>>
    /\ exists(d, "block_timestamps", block.timestamp)
    /\ d.block_timestamps[block.timestamp] = <<block_hash(block)>>
    /\ transaction_stored(d, block.reward_tx, block_hash(block))
    /\ \A i \in 1..Len(transactions) :
           transaction_stored(d, transactions[i], block_hash(block))

\* C1: put_block is all-or-nothing.  No step of a put_block changes the
\* store except the one that returns success, and after that step the block,
\* its index and timestamp entries, the reward transaction, every supplied
\* transaction and all their key images and outputs are in the store; a step
\* that returns an error, or abandons an attempt after MAP_FULL or TXN_FULL
\* and starts over, leaves every sub-database as it was.
C1_PutBlockAllOrNothing ==
    [][\A t \in Threads :
          call[t].op = "put_block" /\ pc[t] # "done" =>
              /\ db' # db => pc'[t] = "done" /\ call'[t].error = "SUCCESS"
              /\ pc'[t] = "done" /\ call'[t].error = "SUCCESS" =>
                     block_stored(db', call[t].block, call[t].txs)
              /\ pc'[t] = "done" /\ call'[t].error # "SUCCESS" => db' = db
              /\ pc'[t] = "begin" => db' = db]_vars

\* C1 witness: a put_block of a block with two transactions has returned
\* success after an earlier attempt was abandoned and the map expanded
C1_Witness ==
    \E t \in Threads :
        /\ pc[t] = "done" /\ call[t].op = "put_block" /\ call[t].error = "SUCCESS"
        /\ Len(call[t].txs) = 2
        /\ map_size > 0
        /\ block_stored(db, call[t].block, call[t].txs)

\* a call of op by thread t has returned
Returned(t, op) == pc[t] = "done" /\ call[t].op = op

\* C2: after a successful put_block(b, txs), get_block(b.hash()) returns
\* success with a block equal to b and a transaction list equal to txs: what
\* is written for a transaction is decoded back to the same transaction.
C2_GetBlockReturnsWhatWasPut ==
    \A t \in Threads :
        Returned(t, "put_block") /\ call[t].error = "SUCCESS" =>
            get_block(db, block_hash(call[t].block))
                = [error |-> "SUCCESS", block |-> call[t].block, txs |-> call[t].txs]

\* C2 witness: a block with a transaction has been put with success, every
\* entry of it is in the store, and get_block of its hash fails
C2_Witness ==
    \E t \in Threads :
        /\ Returned(t, "put_block") /\ call[t].error = "SUCCESS"
        /\ Len(call[t].txs) > 0
        /\ block_stored(db, call[t].block, call[t].txs)
        /\ get_block(db, block_hash(call[t].block)).error # "SUCCESS"

(***************************************************************************)
(* Properties of validation                                                *)
(***************************************************************************)
\* the validation that returned was of a user transaction that passes every
\* check made before the store is read
OtherwiseValid(t) ==
    /\ Returned(t, "validate")
    /\ IsUserTx(call[t].txs[1])
    /\ call[t].inputs.check = "SUCCESS"
    /\ call[t].inputs.range_proof

\* C3: while a key image K put by put_block with a committed user transaction
\* is in the store, the validation of an otherwise valid user transaction,
\* committed or uncommitted, whose key images include K answers
\* TX_KEY_IMAGE_ALREADY_EXISTS.
C3_DoubleSpendRejected ==
    \A t \in Threads :
        OtherwiseValid(t)
        /\ (\E i \in 1..Len(call[t].txs[1].key_images) :
                exists(db, "key_images", call[t].txs[1].key_images[i]))
        => call[t].error = "TX_KEY_IMAGE_ALREADY_EXISTS"

\* C3 witness: an uncommitted transaction that is not in the store, whose
\* first key image is new and whose second one is stored, was rejected
C3_Witness ==
    \E t \in Threads :
        /\ OtherwiseValid(t)
        /\ ~call[t].inputs.committed
        /\ Len(call[t].txs[1].key_images) = 2
        /\ ~transaction_exists(db, transaction_hash(call[t].txs[1]))
        /\ ~exists(db, "key_images", call[t].txs[1].key_images[1])
        /\ exists(db, "key_images", call[t].txs[1].key_images[2])
        /\ call[t].error = "TX_KEY_IMAGE_ALREADY_EXISTS"

(***************************************************************************)
(* Properties of rewind                                                    *)
(***************************************************************************)
\* the errors of the library itself, as opposed to those of the store
LibraryErrors == {"LMDB_ERROR", "LMDB_MAP_FULL", "LMDB_TXN_FULL"}

\* a rewind has returned whose target block existed when it was entered (it
\* read the block count, which is never 0 then) and which the library did
\* not fail
Rewound(t) ==
    /\ Returned(t, "rewind")
    /\ call[t].count > 0
    /\ call[t].error \notin LibraryErrors

\* the blocks in d, decoded
stored_blocks(d) == {deserialize_block(d.blocks[h]).v : h \in DOMAIN d.blocks}

\* C4: after rewind(N) for an existing block index N, get_block_count() is N
\* and get_block(i) answers not-found for every index i above N.
C4_RewindLeavesN ==
    \A t \in Threads :
        Rewound(t) =>
            /\ get_block_count(db) = call[t].index
            /\ \A i \in (call[t].index + 1)..(MaxBlockIndex + 1) :
                   get_block_by_index(db, i).error = "DB_BLOCK_NOT_FOUND"

\* C4 witness: blocks 0 and 1 are stored, rewind(0) has returned, and block 1
\* is still stored
C4_Witness ==
    \E t \in Threads :
        /\ Rewound(t) /\ call[t].index = 0
        /\ get_block_count(db) = 2
        /\ block_exists(db, 0) /\ block_exists(db, 1)
        /\ get_block_by_index(db, 1).error = "SUCCESS"

\* C5: after the blocks have been put and rewind(N) was called, every
\* transaction that is only in blocks above N is no longer found and its key
\* images are no longer in the store.
C5_RewindRemovesTransactions ==
    \A t \in Threads :
        Rewound(t) =>
            \A tx \in UserTxs :
                (\A b \in stored_blocks(db) :
                     transaction_hash(tx) \in b.transactions => b.block_index > call[t].index)
                => /\ get_transaction(db, transaction_hash(tx)).error = "DB_TRANSACTION_NOT_FOUND"
                   /\ ~exists(db, "key_images", tx.key_images[1])

\* C5 witness: rewind(0) has returned, a transaction put with block 1 only
\* is still in the store and so is its key image, and a validation of a
\* transaction that spends the key image would be rejected
C5_Witness ==
    \E t \in Threads :
        /\ Rewound(t) /\ call[t].index = 0
        /\ \E tx \in UserTxs :
               /\ \A b \in stored_blocks(db) :
                      transaction_hash(tx) \in b.transactions <=> b.block_index = 1
               /\ transaction_exists(db, transaction_hash(tx))
               /\ exists(db, "key_images", tx.key_images[1])
               /\ validate_committed(db, tx, NoInputs) = "TX_KEY_IMAGE_ALREADY_EXISTS"

(***************************************************************************)
(* Properties of the genesis block                                         *)
(***************************************************************************)
\* C6: a genesis block can be stored only while no block at index 0 exists:
\* a put_block of a genesis block that runs while block 0 exists returns
\* GENESIS_ALREADY_EXISTS, unless the library fails, and leaves the store
\* unchanged.
C6_SecondGenesisRejected ==
    [][\A t \in Threads :
          /\ call[t].op = "put_block" /\ call[t].block.reward_tx.type = GENESIS
          /\ block_exists(db, 0)
          /\ pc[t] # "done" /\ pc'[t] = "done"
          => /\ call'[t].error \in {"GENESIS_ALREADY_EXISTS"} \cup LibraryErrors
             /\ db' = db]_vars

\* C6 witness: a put_block of a genesis block has returned success and the
\* store holds another block of index 0 as well
C6_Witness ==
    \E t \in Threads :
        /\ Returned(t, "put_block") /\ call[t].error = "SUCCESS"
        /\ call[t].block.reward_tx.type = GENESIS
        /\ \E b \in stored_blocks(db) : b.block_index = 0 /\ b # call[t].block

(***************************************************************************)
(* Properties of the sanity check of put_block                             *)
(***************************************************************************)
\* the hashes of the supplied transactions, in the supplied order
supplied_hashes(transactions) ==
    [i \in 1..Len(transactions) |-> transaction_hash(transactions[i])]

\* C7: put_block(block, txs) returns BLOCK_TXN_MISMATCH when the number of
\* supplied transactions differs from the size of block.transactions, and
\* BLOCK_TXN_ORDER when the counts are equal but the hashes of the supplied
\* transactions, in supplied order, differ from block.transactions in set
\* order; in both cases it returns in its first step, before the write lock
\* is taken, and nothing is written.
C7_TxnMismatchAndOrder ==
    [][\A t \in Threads :
          pc[t] = "idle" /\ call'[t].op = "put_block" =>
              LET block == call'[t].block
                  transactions == call'[t].txs
                  rejected(error) ==
                      /\ pc'[t] = "done" /\ call'[t].error = error
                      /\ write_mutex' = write_mutex /\ write_mutex # t
                      /\ db' = db /\ txn' = txn
              IN
              /\ Len(transactions) # Cardinality(block.transactions)
                     => rejected("BLOCK_TXN_MISMATCH")
              /\ Len(transactions) = Cardinality(block.transactions)
                 /\ supplied_hashes(transactions) # SetOrder(block.transactions)
                     => rejected("BLOCK_TXN_ORDER")]_vars

\* C7 witness: the two transactions of a block were supplied in the order
\* opposite to the set order and put_block has returned BLOCK_TXN_ORDER
C7_Witness ==
    \E t \in Threads :
        /\ Returned(t, "put_block") /\ call[t].error = "BLOCK_TXN_ORDER"
        /\ Len(call[t].txs) = 2
        /\ {supplied_hashes(call[t].txs)[i] : i \in 1..2} = call[t].block.transactions
        /\ write_mutex = 0 /\ db = EmptyDb

(***************************************************************************)
(* Properties of get_random_outputs                                        *)
(***************************************************************************)
\* C8: every successful get_random_outputs(idx, k) returns exactly k
\* outputs, pairwise distinct, sorted ascending by output hash, each stored
\* in transaction_outputs with an unlock block of at least idx.
C8_RandomOutputs ==
    \A t \in Threads :
        Returned(t, "get_random_outputs") /\ call[t].error = "SUCCESS" =>
            LET results == call[t].results IN
            /\ Len(results) = call[t].count
            /\ \A i, j \in 1..Len(results) :
                   i < j => output_hash(results[i]) < output_hash(results[j])
            /\ \A i \in 1..Len(results) :
                   /\ exists(db, "transaction_outputs", output_hash(results[i]))
                   /\ db.transaction_outputs[output_hash(results[i])][1] >= call[t].index
                   /\ SubSeq(db.transaction_outputs[output_hash(results[i])], 2, 4)
                          = serialize_output(results[i])

\* C8 witness: get_random_outputs(1, 2) has returned two outputs with success
C8_Witness ==
    \E t \in Threads :
        /\ Returned(t, "get_random_outputs") /\ call[t].error = "SUCCESS"
        /\ call[t].count = 2 /\ call[t].index = 1
        /\ Len(call[t].results) = 2

(***************************************************************************)
(* Properties of the environment under several threads                     *)
(***************************************************************************)
\* C9: the single-operation put and del helpers of a sub-database never
\* return MAP_FULL or TXN_FULL to their caller.
C9_HelpersNeverReturnFull ==
    \A t \in Threads :
        pc[t] = "done" /\ call[t].op \in {"put", "del"} => ~IsFull(call[t].error)

\* C9 witness: a helper has returned MAP_FULL or TXN_FULL without the map
\* having been expanded, while another thread holds a registered write
\* transaction
C9_Witness ==
    \E t \in Threads :
        /\ pc[t] = "done" /\ call[t].op \in {"put", "del"} /\ IsFull(call[t].error)
        /\ map_size = 0
        /\ me_txn \notin {0, t} /\ m_open_txns > 0

\* C10: expand returns an error and leaves the map size unchanged whenever
\* a write transaction of the environment is open; the map is only ever
\* resized while no write transaction is open.
C10_NoResizeWhileWriting ==
    [][/\ map_size' # map_size => me_txn = 0 /\ \A t \in Threads : ~txn[t].active
       /\ \A t \in Threads :
              pc[t] \in {"h_expand", "h_mapsize"} /\ pc'[t] # pc[t] /\ me_txn # 0
                  => map_size' = map_size /\ pc'[t] \in {"h_mapsize", "done"}]_vars

\* C10 witness: the map has been expanded and the thread whose write
\* transaction was active during the expansion has not yet registered it
C10_Witness ==
    \E t \in Threads :
        /\ map_size > 0
        /\ pc[t] = "h_register" /\ me_txn = t /\ txn[t].active
        /\ m_open_txns = 0
        /\ \E u \in Threads \ {t} : pc[u] = "h_begin"

(***************************************************************************)
(* Properties of the lifetime of a storage transaction                     *)
(***************************************************************************)
\* the positions of a helper between transaction_register and
\* transaction_unregister
Registered == {"h_op", "h_abort", "h_commit", "h_unregister"}

\* the positions of a helper at which its transaction object, if it has had
\* one, has been destroyed: after the return, at the retry label, in expand
Destroyed == {"idle", "done", "h_begin", "h_expand", "h_mapsize"}

\* C11: when a storage transaction object is destroyed without commit or
\* abort having been called, on a return with an error as well as on a jump
\* back to the retry label, the underlying transaction is aborted: it is no
\* longer the write transaction of the environment, it is not counted as
\* open, and none of its writes reach the store.
C11_DestructorAborts ==
    /\ [](\A t \in Threads :
             pc[t] \in Destroyed => ~txn[t].active /\ me_txn # t)
    /\ [](m_open_txns = Cardinality({t \in Threads : pc[t] \in Registered}))
    /\ [][\A t \in Threads :
             pc[t] = "h_abort" /\ pc'[t] # pc[t] => db' = db /\ ~txn'[t].active]_vars
    /\ [][db' # db =>
             \E t \in Threads : pc[t] = "h_commit" /\ call'[t].error = "SUCCESS"
                                 /\ db' = txn[t].view]_vars

\* C11 witness: a put whose write failed with a hard error has returned
\* without commit, nothing of it is in the store, and the other thread has
\* since begun and registered the write transaction of the environment
C11_Witness ==
    \E t \in Threads :
        /\ pc[t] = "done" /\ call[t].op = "put" /\ call[t].error = "LMDB_ERROR"
        /\ ~exists(db, "key_images", call[t].index)
        /\ ~txn[t].active
        /\ \E u \in Threads \ {t} : me_txn = u /\ pc[u] = "h_op" /\ m_open_txns = 1

(***************************************************************************)
(* LMDB::instance called by several threads                                *)
(***************************************************************************)
Paths == 1..NumPaths

\* Crypto::Hashing::sha3(path.data(), path.size())
path_id(path) == sha3(<<path>>)

\* ThreadSafeMap::insert: std::map::insert keeps an entry that is there
map_insert(m, key, value) ==
    IF key \in DOMAIN m THEN m
    ELSE [k \in DOMAIN m \cup {key} |-> IF k = key THEN value ELSE m[k]]

\* ThreadSafeMap::erase
map_erase(m, key) == [k \in DOMAIN m \ {key} |-> m[k]]

\* a shared_ptr to environment e is held by a thread, as the local db of a
\* call in progress or as a handle a call has returned
held(e, locals, returned) ==
    \/ \E t \in Threads : locals[t].db = e
    \/ \E h \in returned : h[2] = e

\* ~LMDB and LMDB::close of environment e, the last shared_ptr to which has
\* gone: the environment is closed and the entry of its id, whichever
\* object it holds, is erased from instances; the object that entry held is
\* destroyed in turn when the map held the last shared_ptr to it
close(e, m, es, locals, returned) ==
    LET id == es[e].id
        x == IF id \in DOMAIN m THEN m[id] ELSE 0
        gone == {e} \cup (IF x # 0 /\ ~held(x, locals, returned) THEN {x} ELSE {})
    IN
    [instances |-> IF x # 0 THEN map_erase(m, id) ELSE m,
     envs |-> [i \in 1..Len(es) |-> IF i \in gone THEN [es[i] EXCEPT !.open = FALSE]
                                     ELSE es[i]]]

\* LMDB::instance(path, ...) is entered
InstanceCall(t, path) ==
    /\ pc[t] = "idle"
    /\ pc' = [pc EXCEPT ![t] = "i_contains"]
    /\ inst' = [inst EXCEPT ![t] = [NoInstance EXCEPT !.path = path]]
    /\ UNCHANGED <<store_vars, peerdb_vars, node_vars, more_vars, instances, envs, handles>>

\* if (!instances.contains(id))
InstanceContains(t) ==
    /\ pc[t] = "i_contains"
    /\ pc' = [pc EXCEPT ![t] = IF path_id(inst[t].path) \in DOMAIN instances
                                THEN "i_at" ELSE "i_create"]
    /\ UNCHANGED <<store_vars, peerdb_vars, node_vars, more_vars, instance_vars>>

\* make_shared<LMDB>, mdb_env_create ... mdb_env_open: the environment of
\* the path is opened, or one of the calls fails and instance throws, the
\* new object being destroyed on the way out
InstanceCreate(t) ==
    /\ pc[t] = "i_create"
    /\ Len(envs) < MaxEnvs
    /\ LET e == Len(envs) + 1
           id == path_id(inst[t].path)
       IN
       \/ /\ envs' = Append(envs, [id |-> id, open |-> TRUE])
          /\ inst' = [inst EXCEPT ![t].db = e]
          /\ pc' = [pc EXCEPT ![t] = "i_insert"]
          /\ UNCHANGED instances
       \/ \E erases \in BOOLEAN :
             LET es == Append(envs, [id |-> id, open |-> FALSE])
                 after == IF erases THEN close(e, instances, es, inst, handles)
                          ELSE [instances |-> instances, envs |-> es]
             IN
             /\ envs' = after.envs
             /\ instances' = after.instances
             /\ inst' = [inst EXCEPT ![t].error = "runtime_error"]
             /\ pc' = [pc EXCEPT ![t] = "done"]
    /\ UNCHANGED <<store_vars, peerdb_vars, node_vars, more_vars, handles>>

\* instances.insert(id, db)
InstanceInsert(t) ==
    /\ pc[t] = "i_insert"
    /\ instances' = map_insert(instances, path_id(inst[t].path), inst[t].db)
    /\ pc' = [pc EXCEPT ![t] = "i_scope"]
    /\ UNCHANGED <<store_vars, peerdb_vars, node_vars, more_vars, envs, inst, handles>>

\* the closing brace of the if: the local shared_ptr db is destroyed, and
\* with it the new environment unless the map took a copy
InstanceScopeEnd(t) ==
    /\ pc[t] = "i_scope"
    /\ LET id == path_id(inst[t].path)
           e == inst[t].db
           locals == [inst EXCEPT ![t].db = 0]
           after == IF id \in DOMAIN instances /\ instances[id] = e
                    THEN [instances |-> instances, envs |-> envs]
                    ELSE close(e, instances, envs, locals, handles)
       IN
       /\ inst' = locals
       /\ instances' = after.instances
       /\ envs' = after.envs
    /\ pc' = [pc EXCEPT ![t] = "i_at"]
    /\ UNCHANGED <<store_vars, peerdb_vars, node_vars, more_vars, handles>>

\* return instances.at(id): std::map::at throws when the id is not there
InstanceAt(t) ==
    /\ pc[t] = "i_at"
    /\ LET id == path_id(inst[t].path) IN
       IF id \in DOMAIN instances
       THEN /\ inst' = [inst EXCEPT ![t].handle = instances[id]]
            /\ handles' = handles \cup {<<inst[t].path, instances[id]>>}
       ELSE /\ inst' = [inst EXCEPT ![t].error = "out_of_range"]
            /\ UNCHANGED handles
    /\ pc' = [pc EXCEPT ![t] = "done"]
    /\ UNCHANGED <<store_vars, peerdb_vars, node_vars, more_vars, instances, envs>>

instance(t) ==
    \/ \E path \in Paths : InstanceCall(t, path)
    \/ InstanceContains(t)
    \/ InstanceCreate(t)
    \/ InstanceInsert(t)
    \/ InstanceScopeEnd(t)
    \/ InstanceAt(t)

NextInstance == \E t \in Threads : instance(t) \/ Return(t)

SpecInstance == Init /\ [][NextInstance]_vars

\* C12: any two calls that open an environment with the same path, one after
\* the other or at once on different threads, return the same handle, and
\* at most one environment object is ever created for that path.  A call that
\* throws because the environment could not be opened is not held against
\* the claim; no call throws for another reason, the handles returned for
\* one path are all the same, and no two open environments have one path.
C12_OneEnvironmentPerPath ==
    /\ \A t \in Threads : pc[t] = "done" => inst[t].error # "out_of_range"
    /\ \A g, h \in handles : g[1] = h[1] => g[2] = h[2]
    /\ \A d, e \in 1..Len(envs) : envs[d].id = envs[e].id /\ envs[d].open /\ envs[e].open
                                      => d = e

\* C12 witness: two calls for one path have returned different handles,
\* both environments being open
C12_Witness ==
    \E t, u \in Threads :
        /\ pc[t] = "done" /\ pc[u] = "done" /\ inst[t].path = inst[u].path
        /\ inst[t].handle # 0 /\ inst[u].handle # 0 /\ inst[t].handle # inst[u].handle
        /\ envs[inst[t].handle].open /\ envs[inst[u].handle].open

(***************************************************************************)
(* The peer database                                                       *)
(***************************************************************************)
\* PeerDB::m_peer_id, the peer id of this node
m_peer_id == "self"

\* a network_peer_t; its address, flags and port are left out
Peer(peer_id, network_id, last_seen) ==
    [peer_id |-> peer_id, network_id |-> network_id, last_seen |-> last_seen]

\* network_peer_t::serialize and deserialize, in the order of the wire
\* format: peer id, network id, last seen
serialize_peer(peer) == <<peer.peer_id, peer.network_id, peer.last_seen>>

deserialize_peer(s) == Peer(s[1], s[2], s[3])

\* PeerDB::get: m_database->get<network_peer_t>(peer_id)
peerdb_get(pl, peer_id) ==
    IF peer_id \in DOMAIN pl
    THEN [error |-> "SUCCESS", peer |-> deserialize_peer(pl[peer_id])]
    ELSE [error |-> "LMDB_NOTFOUND", peer |-> Peer("", "", 0)]

\* m_database->put(entry.peer_id, entry) with the answer put_result of LMDB
peerdb_put(pl, entry, put_result) ==
    [error |-> put_result,
     peerlist |-> IF put_result = "SUCCESS"
                  THEN [k \in DOMAIN pl \cup {entry.peer_id} |->
                           IF k = entry.peer_id THEN serialize_peer(entry) ELSE pl[k]]
                  ELSE pl]

\* an add that stores whatever it is given
add_unchecked(pl, time, entry, put_result) == peerdb_put(pl, entry, put_result)

\* PeerDB::add
add(pl, time, entry, put_result) ==
    IF entry.peer_id = m_peer_id
    THEN [error |-> "PEERLIST_ADD_FAILURE", peerlist |-> pl]
    ELSE IF entry.last_seen < time - PEER_PRUNE_TIME
    THEN [error |-> "PEERLIST_ADD_FAILURE", peerlist |-> pl]
    ELSE peerdb_put(pl, entry, put_result)

\* a touch that stores the entry as it was read
touch_keeps_last_seen(pl, time, peer_id, put_result) ==
    LET got == peerdb_get(pl, peer_id) IN
    IF got.error # "SUCCESS" THEN [error |-> got.error, peerlist |-> pl]
    ELSE add(pl, time, got.peer, put_result)

\* PeerDB::touch
touch(pl, time, peer_id, put_result) ==
    LET got == peerdb_get(pl, peer_id) IN
    IF got.error # "SUCCESS" THEN [error |-> got.error, peerlist |-> pl]
    ELSE add(pl, time, [got.peer EXCEPT !.last_seen = time], put_result)

\* PeerDB::del: m_database->del(peer_id)
peerdb_del(pl, peer_id) ==
    IF peer_id \in DOMAIN pl
    THEN [error |-> "SUCCESS", peerlist |-> [k \in DOMAIN pl \ {peer_id} |-> pl[k]]]
    ELSE [error |-> "LMDB_NOTFOUND", peerlist |-> pl]

\* PeerDB::prune: every peer last seen before the prune time is deleted
prune(pl, time) ==
    [k \in {j \in DOMAIN pl : ~(deserialize_peer(pl[j]).last_seen < time - PEER_PRUNE_TIME)}
        |-> pl[k]]

PeerIds == {"a", "b", m_peer_id}

\* the entries handed to add
Entries == {Peer(id, "net1", seen) : id \in PeerIds, seen \in 0..MaxNow}

PutResults == {"SUCCESS", "LMDB_ERROR"}

PeerDBCall(op, peer_id, last_seen, r) ==
    /\ peerlist' = r.peerlist
    /\ ret' = [op |-> op, peer_id |-> peer_id, last_seen |-> last_seen, error |-> r.error]
    /\ UNCHANGED <<now, store_vars, pc, instance_vars, node_vars, more_vars>>

Add(entry) ==
    \E put_result \in PutResults :
        PeerDBCall("add", entry.peer_id, entry.last_seen, add(peerlist, now, entry, put_result))

Touch(peer_id) ==
    \E put_result \in PutResults :
        PeerDBCall("touch", peer_id, 0, touch(peerlist, now, peer_id, put_result))

Del(peer_id) == PeerDBCall("del", peer_id, 0, peerdb_del(peerlist, peer_id))

Prune == PeerDBCall("prune", "", 0, [error |-> "SUCCESS", peerlist |-> prune(peerlist, now)])

\* a second passes
Tick ==
    /\ now < MaxNow
    /\ now' = now + 1
    /\ UNCHANGED <<peerlist, ret, store_vars, pc, instance_vars, node_vars, more_vars>>

NextPeerDB ==
    \/ \E entry \in Entries : Add(entry)
    \/ \E peer_id \in PeerIds : Touch(peer_id)
    \/ \E peer_id \in PeerIds : Del(peer_id)
    \/ Prune
    \/ Tick

SpecPeerDB == Init /\ [][NextPeerDB]_vars

\* C18: add(p) fails and leaves the peer database unchanged when p.peer_id is
\* the node's own peer id or when p.last_seen < now - PEER_PRUNE_TIME, so
\* that the node's own peer id is never a key of the peer database.
C18_AddRejectsSelfAndStale ==
    /\ [][ret'.op = "add" /\ now' = now
              /\ (ret'.peer_id = m_peer_id \/ ret'.last_seen < now - PEER_PRUNE_TIME)
           => ret'.error = "PEERLIST_ADD_FAILURE" /\ peerlist' = peerlist]_vars
    /\ [](m_peer_id \notin DOMAIN peerlist)

\* C18 witness: a stale entry of a foreign peer has been refused while the
\* peer database holds an entry
C18_Witness ==
    /\ ret.op = "add" /\ ret.peer_id = "a" /\ ret.last_seen < now - PEER_PRUNE_TIME
    /\ ret.error = "PEERLIST_ADD_FAILURE"
    /\ DOMAIN peerlist = {"b"}

\* C19: after a touch(id) that succeeded for a peer that is in the peer
\* database, get(id) returns that peer with last_seen within one second of
\* the current time; touch(id) for an unknown id returns an error and adds
\* no entry.
C19_TouchSetsLastSeen ==
    [][ret'.op = "touch" /\ now' = now =>
           IF ret'.peer_id \in DOMAIN peerlist
           THEN ret'.error = "SUCCESS" =>
                    LET got == peerdb_get(peerlist', ret'.peer_id) IN
                    /\ got.error = "SUCCESS"
                    /\ got.peer.peer_id = ret'.peer_id
                    /\ got.peer.last_seen <= now + 1 /\ now <= got.peer.last_seen + 1
                    /\ DOMAIN peerlist' = DOMAIN peerlist
           ELSE ret'.error # "SUCCESS" /\ peerlist' = peerlist]_vars

\* C19 witness: a touch has succeeded after the clock has moved on and the
\* entry carries the current time
C19_Witness ==
    /\ ret.op = "touch" /\ ret.error = "SUCCESS"
    /\ now > StartTime + 1
    /\ peerdb_get(peerlist, ret.peer_id).peer.last_seen = now

(***************************************************************************)
(* The P2P node: the server's reader thread and the poller                 *)
(***************************************************************************)
\* ZMQServer::m_identity, the identity of the node's own ROUTER socket
m_identity == "srv"

\* Node::m_network_id
m_network_id == "net1"

\* the identities of the sockets that talk to the server
Identities == {"p1", "p2", m_identity}

\* what the handlers read of a packet: its type, its version, the peer id and
\* network id of its sender and the peers it carries (a data packet has no
\* peer id and no peers, a keepalive no network id and no peers)
Packet(type, version, peer_id, network_id, peers) ==
    [type |-> type, version |-> version, peer_id |-> peer_id,
     network_id |-> network_id, peers |-> peers]

PeerB == Peer("b", "net1", StartTime)

PeerA == Peer("a", "net1", StartTime)

\* the well-formed packet of each type, as peer "a" of this network sends it
BasePackets ==
    {Packet(type, MINIMUM_VERSION, "a", m_network_id, <<>>) :
        type \in {"HANDSHAKE", "PEER_EXCHANGE", "KEEPALIVE", "DATA"}}

\* the packets that differ from a well-formed one in one respect
DefectPackets ==
    {Packet(type, MINIMUM_VERSION - 1, "a", m_network_id, <<>>) :
        type \in {"HANDSHAKE", "PEER_EXCHANGE", "KEEPALIVE", "DATA"}}
    \cup {Packet(type, MINIMUM_VERSION, m_peer_id, m_network_id, <<>>) :
        type \in {"HANDSHAKE", "PEER_EXCHANGE", "KEEPALIVE"}}
    \cup {Packet(type, MINIMUM_VERSION, "a", "net2", <<>>) :
        type \in {"HANDSHAKE", "DATA"}}
    \cup {Packet(type, MINIMUM_VERSION, "a", m_network_id, peers) :
        type \in {"HANDSHAKE", "PEER_EXCHANGE"}, peers \in {<<PeerB>>, <<PeerB, PeerA>>}}
    \cup {Packet("UNKNOWN", MINIMUM_VERSION, "a", m_network_id, <<>>)}

\* the messages the ROUTER socket can deliver
Envelopes ==
    {[from |-> "p1", packet |-> packet] : packet \in BasePackets \cup DefectPackets}
    \cup {[from |-> from, packet |-> packet] : from \in {"p2", m_identity}, packet \in BasePackets}

\* the messages a client socket of the node can deliver
ClientEnvelopes == {[from |-> "p1", packet |-> packet] : packet \in BasePackets}

\* the data of the node that the handlers read and write
NodeState == [peerlist |-> peerlist, out |-> m_outgoing_msgs,
              completed |-> m_completed_handshake, messages |-> m_messages]

\* Node::reply, ZMQServer::send: the message is queued for the writer thread
reply(out, to, packet) == Append(out, [to |-> to, packet |-> packet])

\* Node::build_handshake; the list of peers of the reply is left out
build_handshake == Packet("HANDSHAKE", MINIMUM_VERSION, m_peer_id, m_network_id, <<>>)

\* the loop over packet.peers: every peer but the sender is added
RECURSIVE add_peers(_, _, _, _)
add_peers(pl, time, peers, sender) ==
    IF peers = <<>> THEN pl
    ELSE add_peers(IF Head(peers).peer_id = sender THEN pl
                   ELSE add(pl, time, Head(peers), "SUCCESS").peerlist,
                   time, Tail(peers), sender)

\* the peer of the sender and the peers of the packet are added
add_sender_and_peers(pl, time, packet) ==
    add_peers(add(pl, time, Peer(packet.peer_id, packet.network_id, time), "SUCCESS").peerlist,
              time, packet.peers, packet.peer_id)

\* a handshake handler that answers every handshake, a repeated one too
handle_handshake_again(st, time, from, packet, is_server) ==
    IF from = m_identity \/ packet.peer_id = m_peer_id THEN st
    ELSE IF packet.version < MINIMUM_VERSION THEN st
    ELSE IF Len(packet.peers) > MAXIMUM_PEERS_EXCHANGED THEN st
    ELSE [st EXCEPT !.peerlist = add_sender_and_peers(@, time, packet),
                    !.out = IF is_server THEN reply(@, from, build_handshake) ELSE @,
                    !.completed = IF is_server THEN @ \cup {from} ELSE @]

\* a peer exchange handler that does not ask for the handshake
handle_peer_exchange_open(st, time, from, packet, is_server) ==
    IF from = m_identity \/ packet.peer_id = m_peer_id THEN st
    ELSE IF packet.version < MINIMUM_VERSION THEN st
    ELSE [st EXCEPT !.peerlist = add_sender_and_peers(@, time, packet),
                    !.out = IF is_server
                            THEN reply(@, from, Packet("PEER_EXCHANGE", MINIMUM_VERSION,
                                                        m_peer_id, m_network_id, <<>>))
                            ELSE @]

\* a handshake handler that never records the completed handshake
handle_handshake_forgets(st, time, from, packet, is_server) ==
    IF from = m_identity \/ packet.peer_id = m_peer_id THEN st
    ELSE IF packet.version < MINIMUM_VERSION THEN st
    ELSE IF Len(packet.peers) > MAXIMUM_PEERS_EXCHANGED THEN st
    ELSE [st EXCEPT !.peerlist = add_sender_and_peers(@, time, packet),
                    !.out = IF is_server THEN reply(@, from, build_handshake) ELSE @]

\* Node::handle_packet(packet_handshake_t)
handle_handshake(st, time, from, packet, is_server) ==
    IF is_server /\ from \in st.completed THEN st
    ELSE IF from = m_identity \/ packet.peer_id = m_peer_id THEN st
    ELSE IF packet.version < MINIMUM_VERSION THEN st
    ELSE IF Len(packet.peers) > MAXIMUM_PEERS_EXCHANGED THEN st
    ELSE [st EXCEPT !.peerlist = add_sender_and_peers(@, time, packet),
                    !.out = IF is_server THEN reply(@, from, build_handshake) ELSE @,
                    !.completed = IF is_server THEN @ \cup {from} ELSE @]

\* a data handler that does not look at the seed mode
handle_data_unseeded(st, seed_mode, from, packet, is_server) ==
    IF packet.network_id # m_network_id THEN st
    ELSE IF from \notin st.completed THEN st
    ELSE IF from = m_identity THEN st
    ELSE IF packet.version < MINIMUM_VERSION THEN st
    ELSE [st EXCEPT !.messages =
              Append(@, [from |-> from, packet |-> packet, is_server |-> is_server])]

\* Node::handle_packet(packet_data_t)
handle_data(st, seed_mode, from, packet, is_server) ==
    IF seed_mode THEN st
    ELSE IF packet.network_id # m_network_id THEN st
    ELSE IF from \notin st.completed THEN st
    ELSE IF from = m_identity THEN st
    ELSE IF packet.version < MINIMUM_VERSION THEN st
    ELSE [st EXCEPT !.messages =
              Append(@, [from |-> from, packet |-> packet, is_server |-> is_server])]

\* the keepalive the server answers with
reply_keepalive == Packet("KEEPALIVE", MINIMUM_VERSION, m_peer_id, "", <<>>)

\* Node::handle_packet(packet_keepalive_t)
handle_keepalive(st, time, from, packet, is_server) ==
    IF ~is_server
    THEN [st EXCEPT !.peerlist = touch(@, time, packet.peer_id, "SUCCESS").peerlist]
    ELSE IF from \notin st.completed THEN st
    ELSE IF from = m_identity \/ packet.peer_id = m_peer_id THEN st
    ELSE IF packet.version < MINIMUM_VERSION THEN st
    ELSE [st EXCEPT !.out = reply(@, from, reply_keepalive),
                    !.peerlist = touch(@, time, packet.peer_id, "SUCCESS").peerlist]

\* the peer exchange the server answers with; its list of peers is left out
reply_peer_exchange == Packet("PEER_EXCHANGE", MINIMUM_VERSION, m_peer_id, m_network_id, <<>>)

\* Node::handle_packet(packet_peer_exchange_t)
handle_peer_exchange(st, time, from, packet, is_server) ==
    IF is_server /\ from \notin st.completed THEN st
    ELSE IF from = m_identity \/ packet.peer_id = m_peer_id THEN st
    ELSE IF packet.version < MINIMUM_VERSION THEN st
    ELSE [st EXCEPT !.peerlist = add_sender_and_peers(@, time, packet),
                    !.out = IF is_server THEN reply(@, from, reply_peer_exchange) ELSE @]

\* Node::handle_incoming_message: a packet of an unknown type is thrown away
handle_incoming_message(st, seed_mode, time, message, is_server) ==
    CASE message.packet.type = "HANDSHAKE" ->
             handle_handshake(st, time, message.from, message.packet, is_server)
      [] message.packet.type = "PEER_EXCHANGE" ->
             handle_peer_exchange(st, time, message.from, message.packet, is_server)
      [] message.packet.type = "KEEPALIVE" ->
             handle_keepalive(st, time, message.from, message.packet, is_server)
      [] message.packet.type = "DATA" ->
             handle_data(st, seed_mode, message.from, message.packet, is_server)
      [] OTHER -> st

\* the handlers' results are written back
Handled(st) ==
    /\ peerlist' = st.peerlist
    /\ m_outgoing_msgs' = st.out
    /\ m_completed_handshake' = st.completed
    /\ m_messages' = st.messages

\* ZMQServer::incoming_thread reads one message of two parts whose payload
\* is not empty
Receive(message) ==
    /\ Len(log) < MaxPackets
    /\ m_connections' = m_connections \cup {message.from}
    /\ m_incoming_msgs' = Append(m_incoming_msgs, message)
    /\ log' = Append(log, [from |-> message.from, packet |-> message.packet, is_server |-> TRUE])
    /\ UNCHANGED <<peerlist, now, ret, m_seed_mode, m_outgoing_msgs, m_completed_handshake,
                   m_messages, store_vars, pc, instance_vars, more_vars>>

\* Node::poller takes a message of the server
Poll ==
    /\ m_incoming_msgs # <<>>
    /\ m_incoming_msgs' = Tail(m_incoming_msgs)
    /\ Handled(handle_incoming_message(NodeState, m_seed_mode, now, Head(m_incoming_msgs), TRUE))
    /\ UNCHANGED <<now, ret, m_seed_mode, m_connections, log, store_vars, pc, instance_vars, more_vars>>

\* Node::poller takes a message that a client of the node has received
PollClient(message) ==
    /\ Len(log) < MaxPackets
    /\ log' = Append(log, [from |-> message.from, packet |-> message.packet, is_server |-> FALSE])
    /\ Handled(handle_incoming_message(NodeState, m_seed_mode, now, message, FALSE))
    /\ UNCHANGED <<now, ret, m_seed_mode, m_connections, m_incoming_msgs, store_vars, pc,
                   instance_vars, more_vars>>

\* the node is started as a seed node or as an ordinary node
InitNode == BaseInit /\ m_seed_mode \in BOOLEAN /\ uncommitted = NoTx /\ committed = NoTx

NextNode ==
    \/ \E message \in Envelopes : Receive(message)
    \/ Poll
    \/ \E message \in ClientEnvelopes : PollClient(message)

SpecNode == InitNode /\ [][NextNode]_vars

\* the messages the server has received, in the order of their arrival
ServerLog == SelectSeq(log, LAMBDA e : e.is_server)

\* the messages the server had received before the one the poller takes next
PolledBefore == SubSeq(ServerLog, 1, Len(ServerLog) - Len(m_incoming_msgs))

\* the peer has sent a handshake among the messages of l
HandshakeSent(from, l) ==
    \E i \in 1..Len(l) : l[i].from = from /\ l[i].packet.type = "HANDSHAKE"

\* the poller takes a message of the server in this step
PollStep == Len(m_incoming_msgs') < Len(m_incoming_msgs)

\* a keepalive of a peer that has sent no handshake is dropped: no reply is
\* queued and the peer database is unchanged
C13_Dropped ==
    [][PollStep /\ Head(m_incoming_msgs).packet.type = "KEEPALIVE"
              /\ ~HandshakeSent(Head(m_incoming_msgs).from, PolledBefore)
           => /\ m_outgoing_msgs' = m_outgoing_msgs
              /\ peerlist' = peerlist
              /\ m_completed_handshake' = m_completed_handshake]_vars

\* the arrival of such a keepalive does not register its sender
C13_NotRegistered ==
    [][Len(log') > Len(log) /\ log'[Len(log')].is_server
              /\ log'[Len(log')].packet.type = "KEEPALIVE"
              /\ ~HandshakeSent(log'[Len(log')].from, ServerLog)
           => (log'[Len(log')].from \in m_connections'
                   => log'[Len(log')].from \in m_connections)]_vars

\* C13: if a peer sends KEEPALIVE to the server before it has sent any
\* HANDSHAKE, the packet is dropped (no reply, no peer-database update) and
\* the peer is not added to the server's registered connections.
C13_KeepaliveBeforeHandshake == C13_Dropped /\ C13_NotRegistered

\* C13 witness: the first message of a peer was a keepalive, the poller has
\* dropped it, and the peer is a registered connection of the server
C13_Witness ==
    /\ Len(log) = 1 /\ log[1].is_server /\ log[1].from = "p1"
    /\ log[1].packet.type = "KEEPALIVE"
    /\ m_incoming_msgs = <<>> /\ m_outgoing_msgs = <<>> /\ DOMAIN peerlist = {}
    /\ "p1" \in m_connections

\* a handshake the server has no reason to refuse
ValidHandshake(message) ==
    /\ message.packet.type = "HANDSHAKE"
    /\ message.from # m_identity /\ message.packet.peer_id # m_peer_id
    /\ message.packet.version >= MINIMUM_VERSION
    /\ Len(message.packet.peers) <= MAXIMUM_PEERS_EXCHANGED

\* the replies of the given type queued for the peer
Replies(to, type) ==
    {i \in 1..Len(m_outgoing_msgs) :
        m_outgoing_msgs[i].to = to /\ m_outgoing_msgs[i].packet.type = type}

\* a valid handshake of a peer that has not completed the handshake records
\* the peer and queues one handshake for it
C14_Completes ==
    [][PollStep /\ ValidHandshake(Head(m_incoming_msgs))
              /\ Head(m_incoming_msgs).from \notin m_completed_handshake
           => /\ m_completed_handshake' = m_completed_handshake \cup {Head(m_incoming_msgs).from}
              /\ m_outgoing_msgs' = Append(m_outgoing_msgs,
                     [to |-> Head(m_incoming_msgs).from, packet |-> build_handshake])]_vars

\* a peer is sent one handshake when it has completed the handshake and none
\* before
C14_OneReply ==
    [](\A to \in Identities :
          Cardinality(Replies(to, "HANDSHAKE")) = IF to \in m_completed_handshake THEN 1 ELSE 0)

\* the packets of a peer that has completed the handshake are accepted: a
\* keepalive is answered and the peer touched, a peer exchange is answered
\* and its sender stored, a data packet of this network is handed to the
\* application unless the node is a seed node
C14_Accepted ==
    [][PollStep /\ Head(m_incoming_msgs).from \in m_completed_handshake
              /\ Head(m_incoming_msgs).from # m_identity
              /\ Head(m_incoming_msgs).packet.peer_id # m_peer_id
              /\ Head(m_incoming_msgs).packet.version >= MINIMUM_VERSION
           => LET message == Head(m_incoming_msgs) IN
              /\ message.packet.type = "KEEPALIVE" =>
                    /\ m_outgoing_msgs' = Append(m_outgoing_msgs,
                           [to |-> message.from, packet |-> reply_keepalive])
                    /\ peerdb_get(peerlist', message.packet.peer_id).peer.last_seen = now
              /\ message.packet.type = "PEER_EXCHANGE" =>
                    /\ m_outgoing_msgs' = Append(m_outgoing_msgs,
                           [to |-> message.from, packet |-> reply_peer_exchange])
                    /\ message.packet.peer_id \in DOMAIN peerlist'
              /\ message.packet.type = "DATA" /\ message.packet.network_id = m_network_id
                     /\ ~m_seed_mode =>
                    m_messages' = Append(m_messages,
                        [from |-> message.from, packet |-> message.packet, is_server |-> TRUE])]_vars

\* C14: on the server side a valid HANDSHAKE from a peer that has not yet
\* completed the handshake (also one whose earlier packets were dropped)
\* records the peer's identity as handshake-completed and sends exactly one
\* reply HANDSHAKE addressed to that peer, after which its KEEPALIVE,
\* PEER_EXCHANGE and DATA packets are accepted.
C14_HandshakeCompletes == C14_Completes /\ C14_OneReply /\ C14_Accepted

\* C14 witness: a peer's keepalive was dropped, its handshake was answered,
\* and its next keepalive has been answered too
C14_Witness ==
    /\ Len(log) = MaxPackets /\ m_incoming_msgs = <<>>
    /\ \A i \in 1..Len(log) : log[i].is_server /\ log[i].from = "p1"
    /\ log[1].packet.type = "KEEPALIVE" /\ ValidHandshake(log[2])
    /\ log[MaxPackets].packet.type = "KEEPALIVE"
    /\ "p1" \in m_completed_handshake
    /\ Len(m_outgoing_msgs) = 2
    /\ m_outgoing_msgs[1] = [to |-> "p1", packet |-> build_handshake]
    /\ m_outgoing_msgs[2] = [to |-> "p1", packet |-> reply_keepalive]

\* C15: a node running in seed mode never pushes a DATA packet to its
\* application message queue and never forwards it, whatever the packet's
\* sender, network id, version or handshake state.
C15_SeedIgnoresData ==
    m_seed_mode =>
        /\ m_messages = <<>>
        /\ \A i \in 1..Len(m_outgoing_msgs) : m_outgoing_msgs[i].packet.type # "DATA"

\* C15 witness: a seed node has taken a well-formed data packet of its own
\* network from a peer that had completed the handshake
C15_Witness ==
    /\ m_seed_mode
    /\ Len(log) = 2 /\ m_incoming_msgs = <<>>
    /\ log[1].is_server /\ ValidHandshake(log[1]) /\ log[1].from = "p1"
    /\ log[2].is_server /\ log[2].from = "p1" /\ log[2].packet \in BasePackets
    /\ log[2].packet.type = "DATA"
    /\ "p1" \in m_completed_handshake

(***************************************************************************)
(* The ROUTER socket of the server: ZMQServer::send, the outgoing thread   *)
(* and the incoming thread.  A payload is a sequence of symbols; the n-th  *)
(* message handed to send carries the payload <<n>>.                       *)
(***************************************************************************)
\* the peers a message is addressed to; "" addresses every connection
Destinations == {"p1", "p2", ""}

\* the connections in the order in which ThreadSafeMap::each visits them
RECURSIVE each(_)
each(connections) ==
    IF connections = {} THEN <<>>
    ELSE LET to == CHOOSE c \in connections : \A d \in connections : c = "p1" \/ d # "p1"
         IN <<to>> \o each(connections \ {to})

\* what the threads at the socket leave alone
socket_rest == <<store_vars, pc, instance_vars, peerdb_vars, m_seed_mode,
                 m_completed_handshake, m_messages, connect_vars, tx_vars, ext_vars>>

\* ZMQServer::send
Send(to, payload) ==
    /\ Len(log) < MaxPackets
    /\ log' = Append(log, [to |-> to, payload |-> payload])
    /\ m_outgoing_msgs' = IF payload # <<>>
                          THEN Append(m_outgoing_msgs, [to |-> to, payload |-> payload])
                          ELSE m_outgoing_msgs
    /\ UNCHANGED <<socket_rest, socket_vars, m_connections, m_incoming_msgs>>

\* m_outgoing_msgs.pop(): a message without a destination goes to every
\* connection
WriterPop ==
    /\ writer.pc = "idle"
    /\ m_outgoing_msgs # <<>>
    /\ m_outgoing_msgs' = Tail(m_outgoing_msgs)
    /\ LET message == Head(m_outgoing_msgs)
           targets == IF message.payload = <<>> THEN <<>>
                      ELSE IF message.to = "" THEN each(m_connections) ELSE <<message.to>>
       IN writer' = [pc |-> IF targets = <<>> THEN "idle" ELSE "lock",
                     message |-> message, targets |-> targets, to_delete |-> {}]
    /\ UNCHANGED <<socket_rest, socket_mutex, wire, reader, m_connections, m_incoming_msgs, log>>

\* a writer that goes to the socket without the mutex
WriterLockUnguarded ==
    /\ writer.pc = "lock"
    /\ writer' = [writer EXCEPT !.pc = "identity"]
    /\ UNCHANGED <<socket_rest, socket_mutex, wire, reader, m_connections, m_incoming_msgs, m_outgoing_msgs,
                   log>>

\* std::scoped_lock socket_lock(m_socket_mutex)
WriterLock ==
    /\ writer.pc = "lock"
    /\ socket_mutex = "free"
    /\ socket_mutex' = "writer"
    /\ writer' = [writer EXCEPT !.pc = "identity"]
    /\ UNCHANGED <<socket_rest, wire, reader, m_connections, m_incoming_msgs, m_outgoing_msgs, log>>

\* the writer has sent to the first of its targets and goes on to the next;
\* after the last it erases the connections it could not send to
WriterNext(failed) ==
    LET rest == Tail(writer.targets)
        to_delete == writer.to_delete \cup failed
    IN /\ writer' = [writer EXCEPT !.pc = IF rest = <<>> THEN "idle" ELSE "lock",
                                   !.targets = rest,
                                   !.to_delete = IF rest = <<>> THEN {} ELSE to_delete]
       /\ m_connections' = IF rest = <<>> THEN m_connections \ to_delete ELSE m_connections

\* m_socket.send(message.to_msg(), sndmore): the identity frame is handed to
\* the socket, or the send throws zmq::error_t and the lock is released
WriterIdentity ==
    /\ writer.pc = "identity"
    /\ \/ /\ wire' = Append(wire, [part |-> "identity", to |-> Head(writer.targets),
                                   payload |-> writer.message.payload])
          /\ writer' = [writer EXCEPT !.pc = "payload"]
          /\ UNCHANGED <<socket_mutex, m_connections>>
       \/ /\ WriterNext({Head(writer.targets)})
          /\ socket_mutex' = IF socket_mutex = "writer" THEN "free" ELSE socket_mutex
          /\ UNCHANGED wire
    /\ UNCHANGED <<socket_rest, reader, m_incoming_msgs, m_outgoing_msgs, log>>

\* m_socket.send(message.payload_msg(), dontwait) and the end of the scope
\* of the lock
WriterPayload ==
    /\ writer.pc = "payload"
    /\ wire' = Append(wire, [part |-> "payload", to |-> Head(writer.targets),
                             payload |-> writer.message.payload])
    /\ WriterNext({})
    /\ socket_mutex' = IF socket_mutex = "writer" THEN "free" ELSE socket_mutex
    /\ UNCHANGED <<socket_rest, reader, m_incoming_msgs, m_outgoing_msgs, log>>

\* ZMQServer::incoming_thread: std::scoped_lock lock(m_socket_mutex)
ReaderLock ==
    /\ reader = "idle"
    /\ socket_mutex = "free"
    /\ socket_mutex' = "reader"
    /\ reader' = "recv"
    /\ UNCHANGED <<socket_rest, wire, writer, m_connections, m_incoming_msgs, m_outgoing_msgs, log>>

\* zmq::multipart_t messages(m_socket, ZMQ_DONTWAIT): nothing has arrived,
\* or a message of a peer, which is registered and queued
ReaderRecv ==
    /\ reader = "recv"
    /\ reader' = "idle"
    /\ socket_mutex' = "free"
    /\ \/ UNCHANGED <<m_connections, m_incoming_msgs>>
       \/ \E from \in {"p1", "p2"} :
             /\ Len(m_incoming_msgs) < MaxPackets
             /\ m_connections' = m_connections \cup {from}
             /\ m_incoming_msgs' = Append(m_incoming_msgs, [from |-> from, payload |-> <<0>>])
    /\ UNCHANGED <<socket_rest, wire, writer, m_outgoing_msgs, log>>

NextSocket ==
    \/ \E to \in Destinations, payload \in {<<>>, <<Len(log) + 1>>} : Send(to, payload)
    \/ WriterPop
    \/ WriterLock
    \/ WriterIdentity
    \/ WriterPayload
    \/ ReaderLock
    \/ ReaderRecv

SpecSocket == Init /\ [][NextSocket]_vars

\* the frames on the wire come in pairs, the identity of a peer and then the
\* payload of the same message for the same peer
FramePairs ==
    \A i \in 1..Len(wire) :
        IF i % 2 = 1
        THEN /\ wire[i].part = "identity"
             /\ i = Len(wire) => writer.pc = "payload" /\ socket_mutex = "writer"
        ELSE /\ wire[i].part = "payload"
             /\ wire[i].to = wire[i - 1].to
             /\ wire[i].payload = wire[i - 1].payload

\* what a peer is sent is a message that was queued for it or for all, and
\* a peer is sent its messages in the order in which they were queued
QueueOrder ==
    \A j \in 1..Len(wire) :
        /\ wire[j].payload[1] \in 1..Len(log)
        /\ log[wire[j].payload[1]].payload = wire[j].payload
        /\ log[wire[j].payload[1]].to \in {wire[j].to, ""}
        /\ \A i \in 1..(j - 1) :
              wire[i].to = wire[j].to /\ wire[i].part = wire[j].part
                  => wire[i].payload[1] < wire[j].payload[1]

\* one thread at a time is at the socket
OneAtTheSocket == ~(reader = "recv" /\ writer.pc \in {"identity", "payload"})

\* C16: messages queued for one peer are put on the wire in the order they
\* were queued, and the two frames (identity, payload) of a ROUTER message
\* are sent as one unit under the socket mutex: frames of two different
\* messages are never interleaved, even while the inbound reader thread
\* uses the same socket.
C16_OrderedFramePairs == FramePairs /\ QueueOrder /\ OneAtTheSocket

\* C16 witness: two messages queued for one peer are on the wire, the reader
\* has been at the socket in between and has registered another peer
C16_Witness ==
    /\ Len(wire) = 4
    /\ \A i \in 1..Len(wire) : wire[i].to = "p1"
    /\ wire[2].payload # wire[4].payload
    /\ "p2" \in m_connections
    /\ Len(m_incoming_msgs) = 2

(***************************************************************************)
(* Node::connect, ZMQClient::connect and the connection monitor            *)
(***************************************************************************)
Hosts == {"h1", "h2", "h3"}

\* what a connection attempt leaves alone
connect_rest == <<store_vars, pc, instance_vars, peerdb_vars, node_vars, socket_vars, tx_vars,
                  ext_vars>>

\* Node::connect: a host the node has a client for is refused; otherwise a
\* client is made and ZMQClient::connect takes m_connecting and the socket
\* mutex
ConnectCall(host) ==
    /\ conn.pc = "idle"
    /\ conn' = IF host \in DOMAIN m_clients
               THEN [pc |-> "idle", host |-> host, error |-> "P2P_DUPE_CONNECT",
                     signalled |-> FALSE]
               ELSE [pc |-> "connect", host |-> host, error |-> "SUCCESS", signalled |-> FALSE]
    /\ elapsed' = 0
    /\ UNCHANGED <<m_clients, connect_rest>>

\* m_socket.connect: the connection is started in the background, or the
\* call throws zmq::error_t and connect returns ZMQ_CONNECT_ERROR
SocketConnect ==
    /\ conn.pc = "connect"
    /\ \/ conn' = [conn EXCEPT !.pc = "issued"]
       \/ conn' = [conn EXCEPT !.pc = "idle", !.error = "ZMQ_CONNECT_ERROR"]
    /\ UNCHANGED <<elapsed, m_clients, connect_rest>>

\* cv_connected.wait_for(lock, timeout) releases m_connecting and blocks
WaitFor ==
    /\ conn.pc = "issued"
    /\ conn' = [conn EXCEPT !.pc = "waiting"]
    /\ elapsed' = 0
    /\ UNCHANGED <<m_clients, connect_rest>>

\* zmq_connection_monitor::on_event_connected on the thread of the monitor:
\* the host is recorded and cv_connected.notify_all() wakes the thread that
\* waits, if one waits
on_event_connected ==
    /\ conn.pc \in {"issued", "waiting"}
    /\ ~conn.signalled
    /\ conn' = [conn EXCEPT !.signalled = TRUE,
                            !.pc = IF conn.pc = "waiting" THEN "woken" ELSE @]
    /\ UNCHANGED <<elapsed, m_clients, connect_rest>>

\* the wait returns although nobody has notified, as a wait on a
\* std::condition_variable may
SpuriousWakeup ==
    /\ conn.pc = "waiting"
    /\ conn' = [conn EXCEPT !.pc = "woken"]
    /\ UNCHANGED <<elapsed, m_clients, connect_rest>>

\* time passes while the thread waits
TimerTick ==
    /\ conn.pc = "waiting"
    /\ elapsed < DEFAULT_CONNECTION_TIMEOUT
    /\ elapsed' = elapsed + 1
    /\ UNCHANGED <<conn, m_clients, connect_rest>>

\* wait_for returns std::cv_status::timeout: ZMQClient::connect and
\* Node::connect return ZMQ_CONNECT_ERROR
Timeout ==
    /\ conn.pc = "waiting"
    /\ elapsed = DEFAULT_CONNECTION_TIMEOUT
    /\ conn' = [conn EXCEPT !.pc = "idle", !.error = "ZMQ_CONNECT_ERROR"]
    /\ UNCHANGED <<elapsed, m_clients, connect_rest>>

\* wait_for returns std::cv_status::no_timeout: the threads of the client
\* are started, Node::connect sends the handshake and keeps the client
Connected ==
    /\ conn.pc = "woken"
    /\ conn' = [conn EXCEPT !.pc = "idle", !.error = "SUCCESS"]
    /\ m_clients' = [h \in DOMAIN m_clients \cup {conn.host} |->
                        IF h = conn.host THEN <<build_handshake>> ELSE m_clients[h]]
    /\ UNCHANGED <<elapsed, connect_rest>>

NextConnect ==
    \/ \E host \in Hosts : ConnectCall(host)
    \/ SocketConnect
    \/ WaitFor
    \/ on_event_connected
    \/ SpuriousWakeup
    \/ TimerTick
    \/ Timeout
    \/ Connected

SpecConnect == Init /\ [][NextConnect]_vars

\* the call of connect returns in this step
ConnectReturns == conn.pc \notin {"idle", "connect"} /\ conn'.pc = "idle"

\* when the time has expired and the monitor has not signalled, the call
\* returns ZMQ_CONNECT_ERROR
C17_ErrorOnExpiry ==
    [][conn.pc = "waiting" /\ elapsed = DEFAULT_CONNECTION_TIMEOUT /\ ~conn.signalled
           /\ conn'.pc = "idle"
           => conn'.error = "ZMQ_CONNECT_ERROR"]_vars

\* when the monitor has signalled after the socket connect was issued and
\* before the timeout, the call returns success
C17_SuccessWhenSignalled ==
    [][ConnectReturns /\ conn.signalled => conn'.error = "SUCCESS"]_vars

\* a call that fails sends no handshake and adds no client
C17_FailureKeepsNothing ==
    [][conn'.pc = "idle" /\ conn'.error # "SUCCESS" => m_clients' = m_clients]_vars

\* C17: a client connect call returns ZMQ_CONNECT_ERROR when
\* DEFAULT_CONNECTION_TIMEOUT expires without the monitor having signalled
\* 'connected', and returns success when the monitor signals 'connected' at
\* any moment between the socket connect being issued and the timeout; when
\* it fails, the node sends no handshake and adds no client to its client
\* map.
C17_ConnectTimeout ==
    C17_ErrorOnExpiry /\ C17_SuccessWhenSignalled /\ C17_FailureKeepsNothing

\* C17 witness: the monitor has signalled 'connected' for the host, and the
\* call has returned ZMQ_CONNECT_ERROR after the full timeout without a
\* client for the host
C17_Witness ==
    /\ conn.pc = "idle" /\ conn.signalled /\ conn.error = "ZMQ_CONNECT_ERROR"
    /\ elapsed = DEFAULT_CONNECTION_TIMEOUT
    /\ conn.host \notin DOMAIN m_clients

(***************************************************************************)
(* Uncommitted user transactions and to_committed.  The class of a         *)
(* transaction object is its variant; its type is the field the header     *)
(* writes, which a deserialized object takes from the stream.              *)
(***************************************************************************)
\* UncommittedTransactionSuffix::serialize_suffix
serialize_uncommitted_suffix(tx) ==
    <<Len(tx.pseudo_commitments)>> \o tx.pseudo_commitments
        \o <<Len(tx.ring_participants)>> \o tx.ring_participants
        \o <<Len(tx.signatures)>> \o tx.signatures \o <<tx.range_proof>>

\* UncommittedTransactionSuffix::signature_hash
signature_hash(tx) ==
    sha3(<<Len(tx.pseudo_commitments)>> \o tx.pseudo_commitments
             \o <<Len(tx.ring_participants)>> \o tx.ring_participants
             \o <<Len(tx.signatures)>> \o tx.signatures)

\* UncommittedTransactionSuffix::range_proof_hash
range_proof_hash(tx) == sha3(<<tx.range_proof>>)

\* uncommitted_stake_transaction_t::pruning_hash, the hash of the suffix
pruning_hash(tx) == sha3(serialize_uncommitted_suffix(tx))

\* digest() of a stake or recall stake transaction, committed or not: the
\* SHA3 of prefix, body and the data fields of its class
digest(tx) == sha3(serialize_prefix(tx) \o serialize_body(tx) \o tx.data)

\* hash() of an uncommitted stake or recall stake transaction
uncommitted_hash(tx) ==
    IF tx.variant = RECALL_STAKE
    THEN sha3(<<digest(tx), signature_hash(tx), range_proof_hash(tx)>>)
    ELSE sha3(<<digest(tx), pruning_hash(tx)>>)

\* hash() of a committed stake or recall stake transaction
committed_hash(tx) ==
    IF tx.variant = RECALL_STAKE
    THEN sha3(<<digest(tx), tx.signature_hash, tx.range_proof_hash>>)
    ELSE sha3(<<digest(tx), tx.pruning_hash, tx.pruning_hash>>)

\* to_committed of an uncommitted stake or recall stake transaction: the
\* constructor of the committed class sets the type, the other fields are
\* copied one by one
to_committed(tx) ==
    [variant |-> tx.variant, type |-> tx.variant, version |-> tx.version,
     unlock_block |-> tx.unlock_block, public_key |-> tx.public_key,
     nonce |-> tx.nonce, fee |-> tx.fee, key_images |-> tx.key_images,
     outputs |-> tx.outputs, data |-> tx.data,
     signature_hash |-> IF tx.variant = RECALL_STAKE THEN signature_hash(tx) ELSE 0,
     range_proof_hash |-> IF tx.variant = RECALL_STAKE THEN range_proof_hash(tx) ELSE 0,
     pruning_hash |-> IF tx.variant = STAKE THEN pruning_hash(tx) ELSE 0]

\* the uncommitted transactions: built through the default constructor
\* (type = variant) or deserialized from a stream that names another type
UncommittedTxs ==
    {[variant |-> variant, type |-> type, version |-> version, unlock_block |-> unlock_block,
      public_key |-> 70, nonce |-> 0, fee |-> fee, key_images |-> key_images,
      outputs |-> <<Output(1, 1, 1), Output(21, 5, 31)>>,
      data |-> IF variant = STAKE THEN <<100, 80, 81, 82>> ELSE <<100, 80, 81, 82, 83>>,
      pseudo_commitments |-> key_images, ring_participants |-> <<17, 18>>,
      signatures |-> signatures, range_proof |-> range_proof] :
        variant \in {STAKE, RECALL_STAKE}, type \in {NORMAL, STAKE, RECALL_STAKE},
        version \in {1, 2}, unlock_block \in {0, 1}, fee \in {1, 2},
        key_images \in {<<11>>, <<11, 12>>}, signatures \in {<<>>, <<7>>},
        range_proof \in {5, 6}}

\* u.to_committed()
ToCommitted ==
    /\ committed = NoTx
    /\ committed' = to_committed(uncommitted)
    /\ UNCHANGED <<uncommitted, store_vars, pc, instance_vars, peerdb_vars, node_vars,
                   socket_vars, connect_vars, ext_vars>>

\* any of the uncommitted transactions is at hand
InitTx ==
    /\ BaseInit /\ m_seed_mode = FALSE
    /\ uncommitted \in UncommittedTxs
    /\ committed = NoTx

NextTx == ToCommitted

SpecTx == InitTx /\ [][NextTx]_vars

\* C20: for every uncommitted user transaction u, u.hash() ==
\* u.to_committed().hash(): to_committed copies every prefix, body and
\* type-specific field that enters the digest and stores exactly the
\* signature hash and range-proof hash that u.hash() uses.
C20_HashPreserved ==
    committed # NoTx =>
        /\ committed_hash(committed) = uncommitted_hash(uncommitted)
        /\ digest(committed) = digest(uncommitted)

\* the part that holds: a recall stake transaction whose type field names
\* its class keeps its hash
C20_RecallStakeAgrees ==
    committed # NoTx /\ uncommitted.variant = RECALL_STAKE /\ uncommitted.type = RECALL_STAKE
        => /\ committed_hash(committed) = uncommitted_hash(uncommitted)
           /\ committed_hash(committed) = transaction_hash(committed)

\* C20 witness: a stake transaction built through its constructor has been
\* committed, its digest is kept and its hash is not
C20_Witness ==
    /\ committed # NoTx
    /\ uncommitted.variant = STAKE /\ uncommitted.type = STAKE
    /\ digest(committed) = digest(uncommitted)
    /\ committed_hash(committed) # uncommitted_hash(uncommitted)

(***************************************************************************)
(* The staking engine: Core::StakingEngine::add_stake                      *)
(***************************************************************************)
\* Configuration::Consensus, scaled down: only the order of the two matters
REQUIRED_CANDIDACY_AMOUNT == 3

MINIMUM_STAKE_AMOUNT == 2

\* the candidate keys and the stakers at hand
MaxCandidateKey == 3

MaxStaker == 2

MaxAmount == 4

CandidateKeys == 1..MaxCandidateKey

Stakers == 1..MaxStaker

\* the committed stake transactions: the fields add_stake reads
StakeTx(version, candidate_public_key, staker, stake_amount) ==
    [type |-> STAKE, version |-> version,
     candidate_public_key |-> candidate_public_key,
     staker_public_view_key |-> staker,
     staker_public_spend_key |-> staker,
     stake_amount |-> stake_amount]

StakeTxs ==
    {StakeTx(v, c, k, a) : v \in 1..3, c \in CandidateKeys, k \in Stakers, a \in 1..MaxAmount}

\* candidate_node_t candidate(candidate key, view key, spend key, amount)
candidate_node(tx) ==
    [public_signing_key |-> tx.candidate_public_key,
     staker_public_view_key |-> tx.staker_public_view_key,
     staker_public_spend_key |-> tx.staker_public_spend_key,
     initial_stake |-> tx.stake_amount]

\* m_db_candidates->exists(key)
candidate_exists(reg, key) == key \in DOMAIN reg

\* m_db_candidates->put(key, candidate)
candidates_put(reg, key, candidate) ==
    [k \in DOMAIN reg \cup {key} |-> IF k = key THEN candidate ELSE reg[k]]

\* add_stake without the two checks of a candidacy
add_stake_unchecked(st, tx, put_result) ==
    IF tx.version = 1
    THEN IF put_result # "SUCCESS"
         THEN [candidates |-> st.candidates, stakes |-> st.stakes, error |-> put_result]
         ELSE [candidates |-> candidates_put(st.candidates, tx.candidate_public_key,
                                             candidate_node(tx)),
               stakes |-> st.stakes, error |-> "SUCCESS"]
    ELSE [candidates |-> st.candidates, stakes |-> st.stakes, error |-> "SUCCESS"]

\* StakingEngine::add_stake(tx), the write mutex of the engine held from its first
\* line to its return; put_result is what the put of the candidate returns
add_stake(st, tx, put_result) ==
    LET same(error) ==
            [candidates |-> st.candidates, stakes |-> st.stakes, error |-> error]
    IN  IF tx.version = 1
        THEN IF candidate_exists(st.candidates, tx.candidate_public_key)
             THEN same("STAKING_CANDIDATE_ALREADY_EXISTS")
             ELSE IF tx.stake_amount # REQUIRED_CANDIDACY_AMOUNT
             THEN same("STAKING_CANDIDATE_AMOUNT_INVALID")
             ELSE IF put_result # "SUCCESS"
             THEN same(put_result)
             ELSE [candidates |-> candidates_put(st.candidates, tx.candidate_public_key,
                                                 candidate_node(tx)),
                   stakes |-> st.stakes, error |-> "SUCCESS"]
        ELSE IF tx.version = 2
        THEN IF ~candidate_exists(st.candidates, tx.candidate_public_key)
             THEN same("STAKING_CANDIDATE_NOT_FOUND")
             ELSE IF tx.stake_amount < MINIMUM_STAKE_AMOUNT
             THEN same("STAKING_STAKE_AMOUNT")
             ELSE same("SUCCESS")
        ELSE same("TX_INVALID_VERSION")

\* a call of add_stake
AddStake(tx, put_result) ==
    LET r == add_stake([candidates |-> candidates, stakes |-> stakes], tx, put_result)
    IN  /\ candidates' = r.candidates
        /\ stakes' = r.stakes
        /\ staked' = [tx |-> tx, error |-> r.error]
        /\ UNCHANGED <<base_vars, election_vars, manager_vars, shutdown_vars, intern_vars,
                       late_vars>>

NextStaking == \E tx \in StakeTxs, put_result \in {"SUCCESS", "LMDB_ERROR"} :
    AddStake(tx, put_result)

SpecStaking == Init /\ [][NextStaking]_vars

\* the stake record a vote leaves in the ledger
stake_record(tx) ==
    [candidate_public_key |-> tx.candidate_public_key,
     public_view_key |-> tx.staker_public_view_key,
     public_spend_key |-> tx.staker_public_spend_key,
     stake |-> tx.stake_amount]

\* the votes of a candidate: the stakes recorded for it
RECURSIVE SumStakes(_)
SumStakes(S) ==
    IF S = {} THEN 0
    ELSE LET r == CHOOSE r \in S : TRUE IN r.stake + SumStakes(S \ {r})

candidate_votes(ledger, key) ==
    SumStakes({r \in ledger : r.candidate_public_key = key})

\* C21: add_stake with a version-1 transaction returns
\* STAKING_CANDIDATE_ALREADY_EXISTS if the candidate key is registered,
\* STAKING_CANDIDATE_AMOUNT_INVALID if the amount is not
\* REQUIRED_CANDIDACY_AMOUNT, and otherwise creates the candidate; on either
\* error the registry is unchanged, so no candidate is created twice or with
\* a wrong amount.
C21_Candidacy ==
    /\ [](\A key \in DOMAIN candidates :
             /\ candidates[key].initial_stake = REQUIRED_CANDIDACY_AMOUNT
             /\ candidates[key].public_signing_key = key)
    /\ [][staked'.tx.version = 1 =>
            LET tx == staked'.tx
                key == tx.candidate_public_key
            IN  /\ (key \in DOMAIN candidates) =>
                       /\ staked'.error = "STAKING_CANDIDATE_ALREADY_EXISTS"
                       /\ candidates' = candidates
                /\ (key \notin DOMAIN candidates
                      /\ tx.stake_amount # REQUIRED_CANDIDACY_AMOUNT) =>
                       /\ staked'.error = "STAKING_CANDIDATE_AMOUNT_INVALID"
                       /\ candidates' = candidates
                /\ (key \notin DOMAIN candidates
                      /\ tx.stake_amount = REQUIRED_CANDIDACY_AMOUNT) =>
                       \/ /\ staked'.error = "SUCCESS"
                          /\ DOMAIN candidates' = DOMAIN candidates \cup {key}
                          /\ candidates'[key] = candidate_node(tx)
                          /\ \A k \in DOMAIN candidates : candidates'[k] = candidates[k]
                       \/ /\ staked'.error = "LMDB_ERROR"
                          /\ candidates' = candidates]_vars

\* a candidacy was refused for a key that is registered, the registry full
C21_Witness ==
    /\ staked.tx # NoTx
    /\ staked.tx.version = 1
    /\ staked.error = "STAKING_CANDIDATE_ALREADY_EXISTS"
    /\ staked.tx.stake_amount # REQUIRED_CANDIDACY_AMOUNT
    /\ staked.tx.staker_public_view_key # candidates[staked.tx.candidate_public_key].staker_public_view_key
    /\ DOMAIN candidates = CandidateKeys

\* C22: a successful add_stake with a version-2 transaction records a vote:
\* afterwards the stake ledger holds a stake record of that amount for that
\* candidate and staker, and the votes of the candidate have grown.
C22_VoteRecorded ==
    [][(staked'.tx.version = 2 /\ staked'.error = "SUCCESS") =>
          /\ stake_record(staked'.tx) \in stakes'
          /\ candidate_votes(stakes', staked'.tx.candidate_public_key)
                 > candidate_votes(stakes, staked'.tx.candidate_public_key)]_vars

\* a vote of a sufficient amount for a registered candidate was accepted
C22_Witness ==
    /\ staked.tx # NoTx
    /\ staked.tx.version = 2
    /\ staked.error = "SUCCESS"
    /\ staked.tx.stake_amount >= MINIMUM_STAKE_AMOUNT
    /\ staked.tx.candidate_public_key \in DOMAIN candidates

(***************************************************************************)
(* The election of producers and validators: StakingEngine::run_election   *)
(***************************************************************************)
\* Configuration::Consensus::PERMANENT_CANDIDATES: three keys, the first of
\* them a key that may also stand as a candidate
PERMANENT_CANDIDATES == <<3, 4, 5>>

\* the largest number of keys asked for, and the longest round of blocks
MaxKeys == 4

MaxRound == 2

\* the lists of block hashes of the last round
Rounds == UNION {[1..n -> {1, 2}] : n \in 0..MaxRound}

\* the registries and the ledgers an election can find
Registries ==
    {[c \in S |-> candidate_node(StakeTx(1, c, 1, REQUIRED_CANDIDACY_AMOUNT))] :
        S \in SUBSET CandidateKeys}

Ledgers(reg) ==
    SUBSET {stake_record(StakeTx(2, c, k, MINIMUM_STAKE_AMOUNT + k - 1)) :
                c \in DOMAIN reg, k \in Stakers}

Range(seq) == {seq[i] : i \in 1..Len(seq)}

\* the first n elements of a sequence
Take(seq, n) == SubSeq(seq, 1, IF n < Len(seq) THEN n ELSE Len(seq))

\* the elements of a sequence that are outside a set, in their order
RECURSIVE Without(_, _)
Without(seq, S) ==
    IF seq = <<>> THEN <<>>
    ELSE IF Head(seq) \in S THEN Without(Tail(seq), S)
    ELSE <<Head(seq)>> \o Without(Tail(seq), S)

\* the total weight of a pool of candidates
RECURSIVE Weight(_, _)
Weight(pool, ledger) ==
    IF pool = {} THEN 0
    ELSE LET c == CHOOSE c \in pool : \A o \in pool : c <= o
         IN  candidate_votes(ledger, c) + Weight(pool \ {c}, ledger)

\* the candidate a number r below the weight of the pool falls on, the
\* candidates taken in the order of their keys
RECURSIVE Pick(_, _, _)
Pick(pool, ledger, r) ==
    LET c == CHOOSE c \in pool : \A o \in pool : c <= o
    IN  IF r < candidate_votes(ledger, c) THEN c
        ELSE Pick(pool \ {c}, ledger, r - candidate_votes(ledger, c))

\* n draws without replacement from the pool, the i-th driven by SHA3(S || i)
RECURSIVE Draw(_, _, _, _, _)
Draw(S, i, n, pool, ledger) ==
    IF n = 0 \/ Weight(pool, ledger) = 0 THEN <<>>
    ELSE LET c == Pick(pool, ledger, sha3(<<S, i>>) % Weight(pool, ledger))
         IN  <<c>> \o Draw(S, i + 1, n - 1, pool \ {c}, ledger)

\* the seats before the overlap rule: the permanent candidates first, then the
\* candidates drawn, at most maximum_keys in all
seats(drawn, maximum_keys) ==
    Take(PERMANENT_CANDIDATES \o Without(drawn, Range(PERMANENT_CANDIDATES)), maximum_keys)

\* the validator seats after the overlap rule: a validator that is a producer
\* gives up its seat, which is drawn again among the candidates seated nowhere
RECURSIVE Redraw(_, _, _, _, _, _)
Redraw(S, i, validators, seated, pool, ledger) ==
    IF validators = <<>> THEN <<>>
    ELSE LET v == Head(validators)
         IN  IF v \notin seated
             THEN <<v>> \o Redraw(S, i, Tail(validators), seated \cup {v}, pool, ledger)
             ELSE LET again == Draw(S, i, 1, pool \ seated, ledger)
                  IN  again \o Redraw(S, i + 1, Tail(validators),
                                      seated \cup Range(again), pool, ledger)

\* run_election without the overlap rule
run_election_overlapping(reg, ledger, last_round_blocks, maximum_keys) ==
    LET S == sha3(last_round_blocks)
    IN  [producers |-> seats(Draw(S, 0, maximum_keys, DOMAIN reg, ledger), maximum_keys),
         validators |-> seats(Draw(S, maximum_keys, maximum_keys, DOMAIN reg, ledger),
                              maximum_keys)]

\* StakingEngine::run_election(last_round_blocks, maximum_keys)
run_election(reg, ledger, last_round_blocks, maximum_keys) ==
    LET S == sha3(last_round_blocks)
        producers == seats(Draw(S, 0, maximum_keys, DOMAIN reg, ledger), maximum_keys)
        validators == seats(Draw(S, maximum_keys, maximum_keys, DOMAIN reg, ledger),
                            maximum_keys)
    IN  [producers |-> producers,
         validators |-> Redraw(S, 2 * maximum_keys, validators, Range(producers),
                               DOMAIN reg, ledger)]

\* a call of run_election
RunElection(last_round_blocks, maximum_keys) ==
    LET r == run_election(candidates, stakes, last_round_blocks, maximum_keys)
    IN  /\ election' = [pc |-> "done", last_round_blocks |-> last_round_blocks,
                        maximum_keys |-> maximum_keys,
                        producers |-> r.producers, validators |-> r.validators]
        /\ UNCHANGED <<base_vars, staking_vars, manager_vars, shutdown_vars, intern_vars,
                       late_vars>>

\* the engine holds any registry and any ledger of votes for its candidates
InitElection ==
    /\ CoreInit /\ ElectionInit /\ ManagerInit /\ ShutdownInit /\ InternInit /\ LateInit
    /\ m_seed_mode = FALSE /\ uncommitted = NoTx /\ committed = NoTx
    /\ candidates \in Registries
    /\ stakes \in Ledgers(candidates)
    /\ staked = [tx |-> NoTx, error |-> "SUCCESS"]

NextElection == \E last_round_blocks \in Rounds, maximum_keys \in 0..MaxKeys :
    RunElection(last_round_blocks, maximum_keys)

SpecElection == InitElection /\ [][NextElection]_vars

WriterBlocks ==
    {b \in Blocks : b.timestamp = 1
                      /\ b.transactions \in {{}, {transaction_hash(UserTx(1))}}}

\* the transactions handed over with such a block
WriterTxs(block) == IF block.transactions = {} THEN <<>> ELSE <<UserTx(1)>>

NextWriters == \E t \in Threads :
    \/ \E block \in WriterBlocks : PutBlockCall(t, block, WriterTxs(block))
    \/ PutBlockLock(t)
    \/ PutBlockBegin(t)
    \/ PutBlockReward(t)
    \/ PutBlockTransaction(t)
    \/ PutBlockBlock(t)
    \/ PutBlockIndex(t)
    \/ PutBlockTimestamp(t)
    \/ PutBlockCommit(t)
    \/ rewind(t)
    \/ Return(t)

SpecWriters == Init /\ [][NextWriters]_vars

\* the thread is inside put_block or inside rewind
InPutBlock(t) == pc[t] # "idle" /\ pc[t] # "done" /\ call[t].op = "put_block"

InRewind(t) == pc[t] # "idle" /\ pc[t] # "done" /\ call[t].op = "rewind"

\* C24: per-block writes are totally ordered: every put_block and every
\* del_block of a rewind holds the global write mutex for the whole of its
\* storage transaction, so the transactions of two concurrent block writes
\* never overlap and a rewind never interleaves with a put_block.
C24_TotallyOrdered ==
    /\ \A t \in Threads : txn[t].active => write_mutex = t
    /\ \A t, u \in Threads : (txn[t].active /\ txn[u].active) => t = u
    /\ \A t, u \in Threads : (InRewind(t) /\ u # t /\ InPutBlock(u)) => ~txn[u].active

\* the transaction of a del_block is open and its thread does not hold the
\* write mutex: the block it deletes was committed by the other thread after
\* rewind had read the block count
C24_Witness ==
    \E t, u \in Threads :
        /\ t # u
        /\ InRewind(t) /\ txn[t].active /\ write_mutex # t
        /\ call[u].op = "put_block" /\ call[u].error = "SUCCESS" /\ pc[u] = "done"

(***************************************************************************)
(* The P2P node: protocol violations                                       *)
(***************************************************************************)
\* the message the poller takes in this step
Polled == Head(m_incoming_msgs)

\* the handlers leave the node as it is
NodeUntouched ==
    /\ m_outgoing_msgs' = m_outgoing_msgs
    /\ peerlist' = peerlist
    /\ m_completed_handshake' = m_completed_handshake
    /\ m_messages' = m_messages

\* C25: on the server side a HANDSHAKE from an identity that has completed
\* the handshake is dropped: no reply is sent, no peer is added or updated,
\* and the handshake state of the identity is unchanged.
C25_RepeatedHandshakeDropped ==
    [][PollStep /\ Polled.packet.type = "HANDSHAKE"
              /\ Polled.from \in m_completed_handshake
           => NodeUntouched]_vars

\* a second handshake of a peer, valid and with a peer the node does not
\* know, has been taken by the poller: one reply is queued and the peer
\* database holds the sender alone
C25_Witness ==
    /\ Len(log) = 2 /\ m_incoming_msgs = <<>>
    /\ \A i \in 1..2 : log[i].is_server /\ log[i].from = "p1"
                          /\ log[i].packet.type = "HANDSHAKE"
    /\ log[1].packet.peers = <<>>
    /\ log[2].packet = Packet("HANDSHAKE", MINIMUM_VERSION, "a", m_network_id, <<PeerB>>)
    /\ "p1" \in m_completed_handshake
    /\ Len(m_outgoing_msgs) = 1
    /\ DOMAIN peerlist = {"a"}

\* C26: on the server side a KEEPALIVE, PEER_EXCHANGE or DATA packet from an
\* identity that has not completed the handshake has no effect: no reply is
\* sent, no peer is added or touched, and nothing reaches the application.
C26_BeforeHandshakeIgnored ==
    [][PollStep /\ Polled.packet.type \in {"KEEPALIVE", "PEER_EXCHANGE", "DATA"}
              /\ Polled.from \notin m_completed_handshake
           => NodeUntouched]_vars

\* a peer that has sent no handshake has sent a keepalive, a peer exchange
\* with a peer and a data packet, each well-formed; the poller has taken
\* all three and the node that is no seed node is as it was
C26_Witness ==
    /\ ~m_seed_mode
    /\ Len(log) = 3 /\ m_incoming_msgs = <<>>
    /\ \A i \in 1..3 : log[i].is_server /\ log[i].from = "p1"
    /\ log[1].packet = Packet("KEEPALIVE", MINIMUM_VERSION, "a", m_network_id, <<>>)
    /\ log[2].packet = Packet("PEER_EXCHANGE", MINIMUM_VERSION, "a", m_network_id, <<PeerB>>)
    /\ log[3].packet = Packet("DATA", MINIMUM_VERSION, "a", m_network_id, <<>>)
    /\ m_outgoing_msgs = <<>> /\ m_messages = <<>>
    /\ DOMAIN peerlist = {} /\ m_completed_handshake = {}

\* C27: a HANDSHAKE or PEER_EXCHANGE packet that carries more than
\* MAXIMUM_PEERS_EXCHANGED peers is dropped: neither its sender nor any peer
\* of its list is added to the peer database, and no reply is sent.
C27_TooManyPeersDropped ==
    [][PollStep /\ Polled.packet.type \in {"HANDSHAKE", "PEER_EXCHANGE"}
              /\ Len(Polled.packet.peers) > MAXIMUM_PEERS_EXCHANGED
           => NodeUntouched]_vars

\* a peer that has completed the handshake has sent a peer exchange with
\* more peers than allowed: a peer of the list is in the peer database and
\* the peer exchange is answered
C27_Witness ==
    /\ Len(log) = 2 /\ m_incoming_msgs = <<>>
    /\ log[2].is_server /\ log[2].packet.type = "PEER_EXCHANGE"
    /\ Len(log[2].packet.peers) > MAXIMUM_PEERS_EXCHANGED
    /\ "b" \in DOMAIN peerlist
    /\ Replies(log[2].from, "PEER_EXCHANGE") # {}

\* the handshake handler drops a handshake with too many peers
C27_HandshakeBounded ==
    [][PollStep /\ Polled.packet.type = "HANDSHAKE"
              /\ Len(Polled.packet.peers) > MAXIMUM_PEERS_EXCHANGED
           => NodeUntouched]_vars

(***************************************************************************)
(* The connection manager: Node::start and Node::connection_manager        *)
(***************************************************************************)
\* Configuration::P2P::SEED_NODES, one node in place of three
SEED_NODES == {"s1"}

\* Configuration::P2P::DEFAULT_CONNECTION_COUNT = SEED_NODES.size() + 8, the
\* eight scaled down to one
DEFAULT_CONNECTION_COUNT == Cardinality(SEED_NODES) + 1

\* size_t: the numbers 0 .. SizeModulus - 1, four bits in place of 64
SizeModulus == 16

\* the seed nodes the user can name at the start
UserSeeds == {"u1", "u2"}

\* the rounds of the connection manager looked at
MaxRounds == 2

\* the peers the peer database can hold: two of the node's network, one of
\* another
ManagerPeers == {Peer("a", m_network_id, StartTime), Peer("b", m_network_id, StartTime),
                 Peer("c", "net2", StartTime)}

\* the host a peer is reached at: peer.address and peer.port
peer_host(peer) == peer.peer_id

\* PeerDB::peers(count, network_id) and PeerDB::peers(count): the lists it can
\* return after the filter, the shuffle and the resize, as sets
peers(pl, n, any_network, network_id) ==
    LET all == {deserialize_peer(pl[id]) : id \in DOMAIN pl}
        filtered == IF any_network THEN all
                    ELSE {peer \in all : peer.network_id = network_id}
    IN  IF n # 0 /\ Cardinality(filtered) > n
        THEN {D \in SUBSET filtered : Cardinality(D) = n}
        ELSE {filtered}

\* DEFAULT_CONNECTION_COUNT - outgoing_connections(), both of them size_t
delta_connections(outgoing) ==
    (DEFAULT_CONNECTION_COUNT - outgoing + SizeModulus) % SizeModulus

\* the clients kept, with a client for each of the hosts connected
with_clients(clients, keep, connected) ==
    [h \in (DOMAIN clients \cap keep) \cup connected |->
        IF h \in connected THEN <<build_handshake>> ELSE clients[h]]

\* what the connection manager leaves alone
manager_rest == <<store_vars, pc, instance_vars, peerdb_vars, node_vars, socket_vars,
                  conn, elapsed, tx_vars, staking_vars, election_vars, shutdown_vars,
                  intern_vars, late_vars>>

\* Node::start(seed_nodes): a connection is tried to every compiled-in seed
\* node and to every seed node of the user; connected are those that succeed
NodeStart(seed_nodes, connected) ==
    /\ manager.pc = "idle"
    /\ connected \subseteq SEED_NODES \cup seed_nodes
    /\ m_clients' = with_clients(m_clients, DOMAIN m_clients, connected)
    /\ manager' = [manager EXCEPT !.pc =
                      IF ~m_seed_mode /\ connected = {} /\ DOMAIN peerlist = {}
                      THEN "failed" ELSE "running"]
    /\ UNCHANGED manager_rest

\* one round of Node::connection_manager: the clients that are no longer
\* connected are erased, the missing connections are counted, that many
\* peers are asked of the peer database and a connection is tried to each
\* but the node itself; connected are the hosts whose connection succeeds
ConnectionManagerRound(disconnected, drawn, connected) ==
    LET keep == DOMAIN m_clients \ disconnected
        outgoing == Cardinality(keep)
        delta == delta_connections(outgoing)
        attempted == {peer \in drawn : peer.peer_id # m_peer_id}
    IN  /\ manager.pc = "running"
        /\ manager.rounds < MaxRounds
        /\ disconnected \subseteq DOMAIN m_clients
        /\ IF delta > 0
           THEN drawn \in peers(peerlist, delta, m_seed_mode, m_network_id)
           ELSE drawn = {}
        /\ connected \subseteq {peer_host(peer) : peer \in attempted} \ keep
        /\ m_clients' = with_clients(m_clients, keep, connected)
        /\ manager' = [pc |-> "running", rounds |-> manager.rounds + 1,
                       outgoing |-> outgoing, delta |-> delta,
                       drawn |-> {peer.peer_id : peer \in drawn},
                       attempted |-> {peer_host(peer) : peer \in attempted}]
        /\ UNCHANGED manager_rest

NextManager ==
    \/ \E peer \in ManagerPeers : Add(peer)
    \/ \E seed_nodes \in SUBSET UserSeeds :
           \E connected \in SUBSET (SEED_NODES \cup UserSeeds) :
               NodeStart(seed_nodes, connected)
    \/ \E disconnected \in SUBSET (SEED_NODES \cup UserSeeds \cup {"a", "b", "c"}) :
           \E drawn \in SUBSET ManagerPeers :
               \E connected \in SUBSET {"a", "b", "c"} :
                   ConnectionManagerRound(disconnected, drawn, connected)

SpecManager == InitNode /\ [][NextManager]_vars

\* C28: in every round of the connection manager new outbound connections
\* are tried only if outgoing_connections < DEFAULT_CONNECTION_COUNT, and
\* then at most DEFAULT_CONNECTION_COUNT - outgoing_connections peers are
\* drawn; with outgoing_connections >= DEFAULT_CONNECTION_COUNT no peer is
\* drawn and no connection is tried.
C28_BoundedDraw ==
    manager.rounds > 0 =>
        IF manager.outgoing < DEFAULT_CONNECTION_COUNT
        THEN Cardinality(manager.drawn) <= DEFAULT_CONNECTION_COUNT - manager.outgoing
        ELSE manager.drawn = {} /\ manager.attempted = {}

\* the node was started with two seed nodes of the user more than it has of
\* its own, so that it has more clients than DEFAULT_CONNECTION_COUNT; the
\* round has drawn both peers of the database and has a client for each
C28_Witness ==
    /\ manager.rounds = 1
    /\ manager.outgoing = DEFAULT_CONNECTION_COUNT + 1
    /\ manager.delta = SizeModulus - 1
    /\ manager.drawn = {"a", "b"}
    /\ DOMAIN m_clients = SEED_NODES \cup UserSeeds \cup {"a", "b"}

\* while the node has fewer clients than DEFAULT_CONNECTION_COUNT, a round
\* draws no more peers than it lacks
C28_DrawWithinDelta ==
    (manager.rounds > 0 /\ manager.outgoing <= DEFAULT_CONNECTION_COUNT) =>
        /\ manager.delta = DEFAULT_CONNECTION_COUNT - manager.outgoing
        /\ Cardinality(manager.drawn) <= manager.delta
        /\ manager.attempted \subseteq manager.drawn

(***************************************************************************)
(* Shutdown: ~Node, ~ZMQServer, ~ZMQClient and the threads they join       *)
(***************************************************************************)
\* the worker threads of the node, in the order ~Node joins them
NodeWorkers == <<"connection_manager", "poller", "keepalive", "peer_exchange">>

\* the objects that own a socket: m_server and a client of m_clients
Owners == {"server", "client"}

\* the threads of such an object, in the order its destructor joins them
SocketThreads == <<"outgoing", "incoming">>

\* the objects the body of a worker's loop goes through: the poller reads
\* the queues of the server and of the clients, the keepalive thread sends
\* through both, the peer exchange thread asks the server for its port and
\* sends through the clients, the connection manager walks the clients
uses(w) == IF w = "connection_manager" THEN {"client"} ELSE Owners

shutdown_rest == <<base_vars, staking_vars, election_vars, manager_vars, intern_vars,
                   late_vars>>

\* Node::start, ZMQServer::bind and ZMQClient::connect: the threads run
StartThreads ==
    /\ shutdown.pc = "idle"
    /\ shutdown' = [shutdown EXCEPT
           !.pc = "running", !.m_running = TRUE,
           !.worker = [w \in DOMAIN @ |-> "sleep"],
           !.owner = [o \in Owners |->
                         [@[o] EXCEPT !.m_running = TRUE,
                                      !.thread = [s \in DOMAIN @ |-> "loop"]]]]
    /\ UNCHANGED shutdown_rest

\* thread_sleep of a worker ends with its interval while the node runs
WorkerWake(w) ==
    /\ ~shutdown.crashed
    /\ shutdown.worker[w] = "sleep" /\ shutdown.m_running
    /\ shutdown' = [shutdown EXCEPT !.worker[w] = "body"]
    /\ UNCHANGED shutdown_rest

\* the body of the worker's loop goes through m_server or a client; through a
\* released object the behaviour is undefined: the thread goes on or the
\* process ends
WorkerBody(w, crash) ==
    LET gone == {o \in uses(w) : shutdown.owner[o].pc = "released"}
    IN  /\ ~shutdown.crashed
        /\ shutdown.worker[w] = "body"
        /\ crash => gone # {}
        /\ shutdown' = [shutdown EXCEPT
               !.worker[w] = "sleep",
               !.crashed = crash,
               !.released_use = @ \cup {<<w, o>> : o \in gone}]
        /\ UNCHANGED shutdown_rest

\* while (m_running) and thread_sleep(m_stopping) end the worker
WorkerExit(w) ==
    /\ ~shutdown.crashed
    /\ shutdown.worker[w] = "sleep" /\ ~shutdown.m_running
    /\ shutdown' = [shutdown EXCEPT !.worker[w] = "exited"]
    /\ UNCHANGED shutdown_rest

\* a thread of the server or of the client takes the socket mutex and uses
\* the socket
ThreadSocket(o, s) ==
    /\ ~shutdown.crashed
    /\ shutdown.owner[o].thread[s] = "loop" /\ shutdown.owner[o].m_running
    /\ shutdown' = [shutdown EXCEPT !.owner[o].thread[s] = "socket"]
    /\ UNCHANGED shutdown_rest

\* it releases the mutex
ThreadLoop(o, s) ==
    /\ ~shutdown.crashed
    /\ shutdown.owner[o].thread[s] = "socket"
    /\ shutdown' = [shutdown EXCEPT !.owner[o].thread[s] = "loop"]
    /\ UNCHANGED shutdown_rest

\* while (m_running) ends the thread
ThreadExit(o, s) ==
    /\ ~shutdown.crashed
    /\ shutdown.owner[o].thread[s] = "loop" /\ ~shutdown.owner[o].m_running
    /\ shutdown' = [shutdown EXCEPT !.owner[o].thread[s] = "exited"]
    /\ UNCHANGED shutdown_rest

\* ~Node: m_running = false; m_stopping.notify_all()
NodeStop ==
    /\ ~shutdown.crashed
    /\ shutdown.pc = "running"
    /\ shutdown' = [shutdown EXCEPT !.pc = "reset_server", !.m_running = FALSE]
    /\ UNCHANGED shutdown_rest

\* the object ~Node is releasing: m_server.reset(), then m_clients.clear()
Releasing ==
    IF shutdown.pc = "reset_server" THEN "server"
    ELSE IF shutdown.pc = "clear_clients" THEN "client" ELSE "none"

\* ~ZMQServer, ~ZMQClient: m_running = false; m_stopping.notify_all()
OwnerStop(o) ==
    /\ ~shutdown.crashed
    /\ Releasing = o /\ shutdown.owner[o].pc = "alive"
    /\ shutdown' = [shutdown EXCEPT !.owner[o].pc = "join", !.owner[o].m_running = FALSE]
    /\ UNCHANGED shutdown_rest

\* the next thread of the object that is not joined
NextJoin(o) ==
    LET left == SelectSeq(SocketThreads, LAMBDA s : shutdown.owner[o].thread[s] # "joined")
    IN  IF left = <<>> THEN "none" ELSE Head(left)

\* m_thread_outgoing.join(), m_thread_incoming.join()
OwnerJoin(o) ==
    /\ ~shutdown.crashed
    /\ shutdown.owner[o].pc = "join"
    /\ NextJoin(o) # "none"
    /\ shutdown.owner[o].thread[NextJoin(o)] = "exited"
    /\ shutdown' = [shutdown EXCEPT !.owner[o].thread[NextJoin(o)] = "joined"]
    /\ UNCHANGED shutdown_rest

\* m_socket.close() under the socket mutex; the object is gone, and ~Node
\* goes on
OwnerClose(o) ==
    /\ ~shutdown.crashed
    /\ shutdown.owner[o].pc = "join"
    /\ NextJoin(o) = "none"
    /\ shutdown' = [shutdown EXCEPT
           !.owner[o].pc = "released", !.owner[o].socket = "closed",
           !.pc = IF o = "server" THEN "clear_clients" ELSE "join"]
    /\ UNCHANGED shutdown_rest

\* the next worker ~Node has not joined
NextWorker ==
    LET left == SelectSeq(NodeWorkers, LAMBDA w : shutdown.worker[w] # "joined")
    IN  IF left = <<>> THEN "none" ELSE Head(left)

\* ~Node: m_connection_manager_thread.join(), m_poller_thread.join(),
\* m_keepalive_thread.join(), m_peer_exchange_thread.join()
NodeJoin ==
    /\ ~shutdown.crashed
    /\ shutdown.pc = "join"
    /\ NextWorker # "none"
    /\ shutdown.worker[NextWorker] = "exited"
    /\ shutdown' = [shutdown EXCEPT !.worker[NextWorker] = "joined"]
    /\ UNCHANGED shutdown_rest

\* ~Node returns
NodeDone ==
    /\ ~shutdown.crashed
    /\ shutdown.pc = "join"
    /\ NextWorker = "none"
    /\ shutdown' = [shutdown EXCEPT !.pc = "done"]
    /\ UNCHANGED shutdown_rest

NextShutdown ==
    \/ StartThreads
    \/ \E w \in Range(NodeWorkers) : WorkerWake(w)
    \/ \E w \in Range(NodeWorkers), crash \in BOOLEAN : WorkerBody(w, crash)
    \/ \E w \in Range(NodeWorkers) : WorkerExit(w)
    \/ \E o \in Owners, s \in Range(SocketThreads) : ThreadSocket(o, s)
    \/ \E o \in Owners, s \in Range(SocketThreads) : ThreadLoop(o, s)
    \/ \E o \in Owners, s \in Range(SocketThreads) : ThreadExit(o, s)
    \/ NodeStop
    \/ \E o \in Owners : OwnerStop(o)
    \/ \E o \in Owners : OwnerJoin(o)
    \/ \E o \in Owners : OwnerClose(o)
    \/ NodeJoin
    \/ NodeDone

SpecShutdown == Init /\ [][NextShutdown]_vars

\* the threads of an object that owns a socket are joined when the socket
\* is closed, and none of them is at the socket then
C29_SocketAfterJoin ==
    \A o \in Owners :
        shutdown.owner[o].socket = "closed" =>
            \A s \in Range(SocketThreads) : shutdown.owner[o].thread[s] = "joined"

\* C29: during shutdown every worker thread that uses a socket is joined
\* before the socket is closed or its owner destroyed: no poller, keepalive,
\* peer exchange or connection manager thread can get at the server or at a
\* client after it has been released.
C29_JoinedBeforeRelease ==
    /\ C29_SocketAfterJoin
    /\ \A o \in Owners :
           shutdown.owner[o].pc = "released" =>
               \A w \in Range(NodeWorkers) : o \in uses(w) => shutdown.worker[w] = "joined"
    /\ shutdown.released_use = {}

\* ~Node has returned, and the poller has gone through the server after
\* m_server.reset() had destroyed it
C29_Witness ==
    /\ shutdown.pc = "done"
    /\ <<"poller", "server">> \in shutdown.released_use
    /\ ~shutdown.crashed

(***************************************************************************)
(* The interned singletons: instance() and the destructors                 *)
(***************************************************************************)
\* the classes with a static map of instances: Database::LMDB,
\* Core::StakingEngine, Core::BlockchainStorage
Kinds == {"environment", "staking_engine", "blockchain_store"}

\* the handles a caller holds on one singleton at most
MaxHandles == 2

\* the object the map of its class holds under its id, or 0
interned(st, kind, id) ==
    IF id \in DOMAIN st.instances[kind] THEN st.instances[kind][id] ELSE 0

\* shared_ptr::use_count of object o: the copy in the map, the copies held as
\* m_db_env by the singletons built on it, the handles of the callers
use_count(st, o) ==
    (IF interned(st, st.objects[o].kind, st.objects[o].id) = o THEN 1 ELSE 0)
        + st.objects[o].owned + st.objects[o].external

\* new T(path), shared_ptr<T>(db), instances.insert(id, ptr) when the map does
\* not contain the id
create(st, kind, path) ==
    IF interned(st, kind, path_id(path)) # 0 THEN st
    ELSE LET o == Len(st.objects) + 1
         IN  [instances |-> [st.instances EXCEPT ![kind] =
                                [id \in DOMAIN @ \cup {path_id(path)} |->
                                    IF id = path_id(path) THEN o ELSE @[id]]],
              objects |-> Append(st.objects,
                                 [kind |-> kind, id |-> path_id(path), alive |-> TRUE,
                                  owned |-> 0, external |-> 0])]

\* the constructor of a staking engine or of a blockchain store takes
\* LMDB::instance(db_path) as its m_db_env
with_environment(st, kind, path) ==
    IF kind = "environment" \/ interned(st, kind, path_id(path)) # 0 THEN st
    ELSE LET made == create(st, "environment", path)
             e == interned(made, "environment", path_id(path))
         IN  [made EXCEPT !.objects[e].owned = @ + 1]

\* T::instance(path): the object of the map, made first when the map has
\* none, copied to the caller
acquire(st, kind, path) ==
    LET made == create(with_environment(st, kind, path), kind, path)
        o == interned(made, kind, path_id(path))
    IN  [made EXCEPT !.objects[o].external = @ + 1]

\* ~T of object o: if (instances.contains(m_id)) instances.erase(m_id)
destroy(st, o) ==
    [instances |-> [st.instances EXCEPT ![st.objects[o].kind] =
                       [id \in DOMAIN @ \ {st.objects[o].id} |-> @[id]]],
     objects |-> [st.objects EXCEPT ![o].alive = FALSE]]

\* a caller lets go of a handle on object o: the object is destroyed when
\* that was the last shared_ptr to it
release(st, o) ==
    LET less == [st EXCEPT !.objects[o].external = @ - 1]
    IN  IF use_count(less, o) = 0 THEN destroy(less, o) ELSE less

intern_rest == <<base_vars, staking_vars, election_vars, manager_vars, shutdown_vars,
                 late_vars>>

\* a call of instance(path) of one of the classes
InternInstance(kind, path) ==
    /\ LET o == interned(intern, kind, path_id(path))
       IN  o # 0 => intern.objects[o].external < MaxHandles
    /\ intern' = acquire(intern, kind, path)
    /\ UNCHANGED intern_rest

\* a caller's shared_ptr goes out of scope
InternRelease(o) ==
    /\ intern.objects[o].alive /\ intern.objects[o].external > 0
    /\ intern' = release(intern, o)
    /\ UNCHANGED intern_rest

NextIntern ==
    \/ \E kind \in Kinds, path \in Paths : InternInstance(kind, path)
    \/ \E o \in 1..Len(intern.objects) : InternRelease(o)

SpecIntern == Init /\ [][NextIntern]_vars

\* C30: a singleton is reference-counted: once every holder outside the
\* intern table has released its handle the instance is destroyed and its
\* entry is removed from the table, so the table never keeps an instance
\* alive that nobody else references.
C30_ReleasedIsDestroyed ==
    \A o \in 1..Len(intern.objects) :
        (intern.objects[o].external = 0 /\ intern.objects[o].owned = 0) =>
            /\ ~intern.objects[o].alive
            /\ interned(intern, intern.objects[o].kind, intern.objects[o].id) # o

\* a blockchain store was handed out twice and both handles are released:
\* the store is alive in the map, and so is the environment it holds
C30_Witness ==
    \E o \in 1..Len(intern.objects) :
        /\ intern.objects[o].kind = "blockchain_store"
        /\ intern.objects[o].external = 0 /\ intern.objects[o].alive
        /\ interned(intern, "blockchain_store", intern.objects[o].id) = o
        /\ use_count(intern, o) = 1
        /\ \E e \in 1..Len(intern.objects) :
               /\ intern.objects[e].kind = "environment"
               /\ intern.objects[e].id = intern.objects[o].id
               /\ intern.objects[e].owned = 1 /\ intern.objects[e].alive

\* no singleton is ever destroyed, and the map holds every one of them
C30_NeverDestroyed ==
    \A o \in 1..Len(intern.objects) :
        /\ intern.objects[o].alive
        /\ interned(intern, intern.objects[o].kind, intern.objects[o].id) = o

(***************************************************************************)
(* The poller and the exceptions of the message handler                    *)
(***************************************************************************)
\* the variable groups that the node, the keepalive thread, the block
\* builder and the miner leave alone
old_vars == <<socket_vars, connect_vars, tx_vars, staking_vars, election_vars,
              manager_vars, shutdown_vars, intern_vars>>

\* the address the socket reports for a message: one that IPParser parses
\* and one that it does not
Addresses == {"10.0.0.1", "?"}

\* a payload is whole or ends before the packet does
Bodies == {"whole", "truncated"}

\* the exceptions of the standard library that the node's code and the
\* deserializer throw; all of them derive from std::exception
StdExceptions == {"runtime_error", "invalid_argument", "range_error"}

\* zmq_message_envelope_t as the poller sees it: the sender, the address of
\* the sender, and the payload, given by the packet it encodes and by
\* whether it is whole
RawEnvelope(from, peer_address, packet, body) ==
    [from |-> from, peer_address |-> peer_address, packet |-> packet, body |-> body]

\* the packets of the payloads: the well-formed ones, one of an unknown
\* type, and a handshake that violates the protocol by its version
RawPackets ==
    BasePackets
    \cup {Packet("UNKNOWN", MINIMUM_VERSION, "a", m_network_id, <<>>),
          Packet("HANDSHAKE", MINIMUM_VERSION - 1, "a", m_network_id, <<>>)}

\* the messages the sockets can hand to the poller
RawEnvelopes ==
    {RawEnvelope("p1", "10.0.0.1", packet, body) : packet \in RawPackets, body \in Bodies}
    \cup {RawEnvelope("p1", "?", packet, "whole") : packet \in RawPackets}

\* ip_address_t(const std::string &): an address that does not parse throws
ip_address_t(address) == IF address = "?" THEN "invalid_argument" ELSE "none"

\* the switch on the type and the constructors of the packets: an unknown
\* type throws, and so does the deserializer when the payload ends early
deserializer_t(message) ==
    IF message.packet.type \notin {"HANDSHAKE", "PEER_EXCHANGE", "KEEPALIVE", "DATA"}
    THEN "runtime_error"
    ELSE IF message.body = "truncated" THEN "range_error"
    ELSE "none"

\* the handshake and peer exchange handlers build the peer of the sender
\* from its address once the packet has passed their checks
builds_peer(st, message, is_server) ==
    LET from == message.from
        packet == message.packet
    IN  CASE packet.type = "HANDSHAKE" ->
                 /\ ~(is_server /\ from \in st.completed)
                 /\ ~(from = m_identity \/ packet.peer_id = m_peer_id)
                 /\ packet.version >= MINIMUM_VERSION
                 /\ Len(packet.peers) <= MAXIMUM_PEERS_EXCHANGED
          [] packet.type = "PEER_EXCHANGE" ->
                 /\ ~(is_server /\ from \notin st.completed)
                 /\ ~(from = m_identity \/ packet.peer_id = m_peer_id)
                 /\ packet.version >= MINIMUM_VERSION
          [] OTHER -> FALSE

\* the exception the body of the try block throws for the message, if any
thrown(st, message, is_server) ==
    IF deserializer_t(message) # "none" THEN deserializer_t(message)
    ELSE IF builds_peer(st, message, is_server) THEN ip_address_t(message.peer_address)
    ELSE "none"

\* the body of the try block: a throw leaves the node's data as they were,
\* since every throw precedes the first write of its handler
try_block(st, seed_mode, time, message, is_server) ==
    LET e == thrown(st, message, is_server)
    IN  [st |-> IF e = "none"
                THEN handle_incoming_message(st, seed_mode, time, message, is_server)
                ELSE st,
         thrown |-> e]

\* a message handler without the catch clause
try_incoming_message_uncaught(st, seed_mode, time, message, is_server) ==
    LET r == try_block(st, seed_mode, time, message, is_server)
    IN  [st |-> r.st, caught |-> "none", propagated |-> r.thrown]

\* Node::handle_incoming_message with its catch (const std::exception &)
try_incoming_message(st, seed_mode, time, message, is_server) ==
    LET r == try_block(st, seed_mode, time, message, is_server)
    IN  [st |-> r.st,
         caught |-> IF r.thrown \in StdExceptions THEN r.thrown ELSE "none",
         propagated |-> IF r.thrown \in StdExceptions THEN "none" ELSE r.thrown]

\* what the poller thread is after a call of the handler: an exception that
\* leaves the thread's function ends the thread
polled_with(r) ==
    [pc |-> IF r.propagated = "none" THEN "running" ELSE "terminated",
     polled |-> Append(poller.polled, IF r.propagated = "none" THEN r.caught ELSE r.propagated)]

\* Node::start starts the poller thread
PollerStart ==
    /\ poller.pc = "idle"
    /\ poller' = [poller EXCEPT !.pc = "running"]
    /\ UNCHANGED <<base_vars, old_vars, keepalive, built, miner>>

\* ZMQServer::incoming_thread queues a message for the poller
ReceiveRaw(message) ==
    /\ Len(log) < MaxPackets
    /\ m_connections' = m_connections \cup {message.from}
    /\ m_incoming_msgs' = Append(m_incoming_msgs, message)
    /\ log' = Append(log, [from |-> message.from, packet |-> message.packet, is_server |-> TRUE])
    /\ UNCHANGED <<peerlist, now, ret, m_seed_mode, m_outgoing_msgs, m_completed_handshake,
                   m_messages, store_vars, pc, instance_vars, old_vars, late_vars>>

\* Node::poller pops a message of the server and hands it to the handler
PollerServer ==
    /\ poller.pc = "running"
    /\ m_incoming_msgs # <<>>
    /\ m_incoming_msgs' = Tail(m_incoming_msgs)
    /\ LET r == try_incoming_message(NodeState, m_seed_mode, now, Head(m_incoming_msgs), TRUE)
       IN  Handled(r.st) /\ poller' = polled_with(r)
    /\ UNCHANGED <<now, ret, m_seed_mode, m_connections, log, store_vars, pc, instance_vars,
                   old_vars, keepalive, built, miner>>

\* Node::poller pops a message of one of its clients
PollerClient(message) ==
    /\ poller.pc = "running"
    /\ Len(log) < MaxPackets
    /\ log' = Append(log, [from |-> message.from, packet |-> message.packet, is_server |-> FALSE])
    /\ LET r == try_incoming_message(NodeState, m_seed_mode, now, message, FALSE)
       IN  Handled(r.st) /\ poller' = polled_with(r)
    /\ UNCHANGED <<now, ret, m_seed_mode, m_connections, m_incoming_msgs, store_vars, pc,
                   instance_vars, old_vars, keepalive, built, miner>>

NextPoller ==
    \/ PollerStart
    \/ \E message \in RawEnvelopes : ReceiveRaw(message)
    \/ PollerServer
    \/ \E message \in RawEnvelopes : PollerClient(message)

SpecPoller == InitNode /\ [][NextPoller]_vars

\* the poller hands a message to the handler in this step
HandlerCalled == Len(poller'.polled) > Len(poller.polled)

\* C31: for every incoming payload (unknown type tag, truncated or malformed
\* body, unparsable peer address, protocol-violating packet) the message
\* handler returns without propagating an exception, and the poller goes on
\* to the next queued message: the thread is still running after the call,
\* the message is off the queue and the data of the node are untouched when
\* the handler threw.
C31_HandlerNeverPropagates ==
    [][HandlerCalled =>
           /\ poller'.pc = "running"
           /\ m_incoming_msgs # m_incoming_msgs' => m_incoming_msgs' = Tail(m_incoming_msgs)
           /\ poller'.polled[Len(poller'.polled)] # "none" =>
                  /\ peerlist' = peerlist /\ m_outgoing_msgs' = m_outgoing_msgs
                  /\ m_completed_handshake' = m_completed_handshake
                  /\ m_messages' = m_messages]_vars

\* C31 witness: the handler threw on a handshake whose address does not
\* parse, and the poller has handled the handshake that came after it
C31_Witness ==
    /\ poller.pc = "running"
    /\ poller.polled = <<"invalid_argument", "none">>
    /\ m_completed_handshake = {"p1"}
    /\ m_incoming_msgs = <<>>

(***************************************************************************)
(* The outputs of a stored transaction                                     *)
(***************************************************************************)
\* the transactions whose outputs a put_block stores: the reward transaction
\* and the transactions of the block, staker rewards left out
output_transactions(block, transactions) ==
    {tx \in {block.reward_tx} \cup Range(transactions) : tx.type # STAKER_REWARD}

\* C32: for every output o of a transaction with unlock_block u stored by a
\* successful put_block (any variant but STAKER_REWARD),
\* get_transaction_output(o.hash()) returns success with (o, u): unlock block
\* and output are read back in the order they were written.
C32_OutputReadBack ==
    \A t \in Threads :
        Returned(t, "put_block") /\ call[t].error = "SUCCESS" =>
            \A tx \in output_transactions(call[t].block, call[t].txs) :
                \A i \in 1..Len(tx.outputs) :
                    get_transaction_output(db, output_hash(tx.outputs[i]))
                        = [error |-> "SUCCESS", output |-> tx.outputs[i],
                           unlock_block |-> tx.unlock_block]

\* C32 witness: a block with a user transaction has been put with success,
\* the entry of the transaction's second output holds the unlock block
\* followed by the output, and get_transaction_output returns another
\* output and another unlock block
C32_Witness ==
    \E t \in Threads :
        /\ Returned(t, "put_block") /\ call[t].error = "SUCCESS"
        /\ Len(call[t].txs) > 0 /\ IsUserTx(call[t].txs[1])
        /\ LET tx == call[t].txs[1]
               o == tx.outputs[2]
               r == get_transaction_output(db, output_hash(o))
           IN  /\ db.transaction_outputs[output_hash(o)]
                      = <<tx.unlock_block>> \o serialize_output(o)
               /\ r.output # o
               /\ r.unlock_block # tx.unlock_block

(***************************************************************************)
(* Termination of get_random_outputs                                       *)
(***************************************************************************)
\* one pass of the sampling loop in which Crypto::random_hash gives the hash
GetRandomOutputsDraw(t, random_hash) ==
    /\ pc[t] = "random_loop"
    /\ Len(call[t].results) < call[t].count
    /\ GetRandomOutputsRound(t, cursor_set_range(db, random_hash))
    /\ UNCHANGED <<db, map_size, me_txn, m_open_txns, txn, write_mutex, calls, other_vars>>

RECURSIVE put_transactions(_, _, _)
\* the loop of put_block over the transactions when no put fails
put_transactions(view, transactions, hash) ==
    IF transactions = <<>> THEN view
    ELSE put_transactions(put_transaction(view, Head(transactions), hash, 0, "SUCCESS").view,
                          Tail(transactions), hash)

\* the store after a put_block of the block none of whose writes failed: the
\* reward transaction, the transactions, the block, its index and timestamp
put_block_view(d, block, transactions) ==
    LET hash == block_hash(block)
        written == put_transactions(d, <<block.reward_tx>> \o transactions, hash)
    IN  txn_put(txn_put(txn_put(written, "blocks", hash, serialize_block(block)),
                        "block_indexes", block.block_index, <<hash>>),
                "block_timestamps", block.timestamp, <<hash>>)

\* the genesis block with the given transactions
GenesisBlock(transactions) ==
    [EmptyBlock EXCEPT !.timestamp = 1, !.block_index = 0, !.reward_tx = GenesisTx,
                       !.transactions = {transaction_hash(transactions[i]) :
                                             i \in 1..Len(transactions)}]

\* the block that follows the genesis block, with the given transactions
SecondBlock(transactions) ==
    [EmptyBlock EXCEPT !.timestamp = 2, !.block_index = 1, !.reward_tx = StakerTx,
                       !.transactions = {transaction_hash(transactions[i]) :
                                             i \in 1..Len(transactions)}]

\* the stores get_random_outputs is called on: the empty one and the ones
\* that hold one block or two
RandomStores ==
    {EmptyDb} \cup {put_block_view(EmptyDb, GenesisBlock(v), v) : v \in TxVectors}
    \cup {put_block_view(put_block_view(EmptyDb, GenesisBlock(<<>>), <<>>),
                         SecondBlock(v), v) : v \in TxVectors}

InitRandom ==
    /\ db \in RandomStores
    /\ map_size = 0 /\ me_txn = 0 /\ m_open_txns = 0
    /\ txn = [t \in Threads |-> NoTxn]
    /\ write_mutex = 0
    /\ pc = [t \in Threads |-> "idle"]
    /\ call = [t \in Threads |-> NoCall]
    /\ calls = 0
    /\ InstanceInit /\ PeerDBInit /\ NodeInit /\ SocketInit /\ ConnectInit /\ ExtInit
    /\ m_seed_mode = FALSE /\ uncommitted = NoTx /\ committed = NoTx

NextRandom == get_random_outputs(1) \/ Return(1)

\* the thread runs on: a step that changes the state is taken when one
\* stays possible, so a hash that adds an output to the results is drawn in
\* the end, and a pass that changes nothing may be repeated for ever
SpecRandom == InitRandom /\ [][NextRandom]_vars /\ WF_vars(NextRandom)

\* C33: for every store state, every min_idx and every count with
\* output_count() >= count, get_random_outputs(min_idx, count) terminates and
\* returns a result: a call that has entered the sampling loop leaves it.
C33_RandomOutputsTerminates ==
    \A t \in Threads :
        (call[t].op = "get_random_outputs" /\ pc[t] = "random_loop") ~> (pc[t] = "done")

\* C33 witness: the call is in the sampling loop, the store holds at least
\* count outputs, results are missing, and no hash that can be drawn adds one
C33_Witness ==
    \E t \in Threads :
        /\ call[t].op = "get_random_outputs" /\ pc[t] = "random_loop"
        /\ output_count(db) >= call[t].count
        /\ Len(call[t].results) < call[t].count
        /\ \A random_hash \in RandomHashes : ~ENABLED <<GetRandomOutputsDraw(t, random_hash)>>_vars

(***************************************************************************)
(* The three sub-databases of the blocks                                   *)
(***************************************************************************)
\* no thread has a storage transaction open
NoBlockWrite == \A t \in Threads : ~txn[t].active

\* the block stored under the hash
block_at(d, hash) == deserialize_block(d.blocks[hash]).v

\* C34: whenever no block write is in progress, blocks, block_indexes and
\* block_timestamps are mutually consistent after any sequence of successful
\* put_block and rewind calls: the indexes present are exactly
\* 0..get_block_count()-1, every index entry and every timestamp entry maps
\* to the hash of a stored block with that index and timestamp, and every
\* stored block has its own index and timestamp entries.
C34_BlockIndexesConsistent ==
    NoBlockWrite =>
        /\ DOMAIN db.block_indexes = 0..(get_block_count(db) - 1)
        /\ \A i \in DOMAIN db.block_indexes :
               /\ exists(db, "blocks", db.block_indexes[i][1])
               /\ block_at(db, db.block_indexes[i][1]).block_index = i
        /\ \A ts \in DOMAIN db.block_timestamps :
               /\ exists(db, "blocks", db.block_timestamps[ts][1])
               /\ block_at(db, db.block_timestamps[ts][1]).timestamp = ts
        /\ \A hash \in DOMAIN db.blocks :
               /\ exists(db, "block_indexes", block_at(db, hash).block_index)
               /\ db.block_indexes[block_at(db, hash).block_index] = <<hash>>
               /\ exists(db, "block_timestamps", block_at(db, hash).timestamp)
               /\ db.block_timestamps[block_at(db, hash).timestamp] = <<hash>>

\* C34 witness: two put_block calls have succeeded and no write is in
\* progress; the store holds two blocks of one timestamp, so one of them has
\* lost its timestamp entry, and the indexes present are not 0 and 1
C34_Witness ==
    /\ NoBlockWrite
    /\ \A t \in Threads : pc[t] \in {"idle", "done"}
    /\ get_block_count(db) = 2
    /\ Cardinality(DOMAIN db.block_timestamps) = 1
    /\ DOMAIN db.block_indexes # {0, 1}

(***************************************************************************)
(* del_block against put_block                                             *)
(***************************************************************************)
\* nothing that put_transaction wrote for the transaction is in d
transaction_gone(d, tx) ==
    /\ ~transaction_exists(d, transaction_hash(tx))
    /\ IsUserTx(tx) =>
           \A i \in 1..Len(tx.key_images) : ~exists(d, "key_images", tx.key_images[i])
    /\ IsUserTx(tx) \/ tx.type \in {GENESIS, STAKE_REFUND} =>
           \A i \in 1..Len(tx.outputs) :
               ~exists(d, "transaction_outputs", output_hash(tx.outputs[i]))

\* nothing that put_block wrote for the block is in d
block_gone(d, block, transactions) ==
    /\ ~exists(d, "blocks", block_hash(block))
    /\ ~exists(d, "block_indexes", block.block_index)
    /\ ~exists(d, "block_timestamps", block.timestamp)
    /\ transaction_gone(d, block.reward_tx)
    /\ \A i \in 1..Len(transactions) : transaction_gone(d, transactions[i])

\* del_block(i) is entered in this step for a block index that is stored
DelBlockEntered(t) ==
    /\ pc[t] = "rewind_loop" /\ call[t].i > call[t].index
    /\ block_exists(db, call[t].i)
    /\ pc'[t] # "rewind_loop"

\* del_block commits in this step
DelBlockCommitted(t) == pc[t] = "del_commit" /\ pc'[t] = "rewind_loop"

\* C35: deleting a block exactly undoes its put_block: del_block of a stored
\* block b goes through, and once it has committed the reward transaction,
\* every transaction of the block, all of their outputs and key images and
\* the three index entries of the block are gone, so that the six
\* sub-databases hold what they held before put_block(b, txs).
C35_DelBlockUndoesPut ==
    [][\A t \in Threads :
          /\ DelBlockEntered(t) =>
                 /\ pc'[t] = "del_begin"
                 /\ block_hash(call'[t].block) \in DOMAIN db.blocks
                 /\ Len(call'[t].txs) = Cardinality(call'[t].block.transactions)
          /\ DelBlockCommitted(t) => block_gone(db', call[t].block, call[t].txs)]_vars

\* C35 witness: del_block of a stored block has committed inside a rewind,
\* the block and its index and timestamp entries are gone, and its reward
\* transaction is still in the store
C35_Witness ==
    \E t \in Threads :
        /\ call[t].op = "rewind" /\ pc[t] = "rewind_loop"
        /\ call[t].i < call[t].count
        /\ ~exists(db, "blocks", block_hash(call[t].block))
        /\ ~exists(db, "block_indexes", call[t].block.block_index)
        /\ transaction_exists(db, transaction_hash(call[t].block.reward_tx))

(***************************************************************************)
(* Data over an outbound connection                                        *)
(***************************************************************************)
\* the messages the poller has taken from the clients of the node
ClientLog == SelectSeq(log, LAMBDA e : ~e.is_server)

\* the poller takes this message from a client of the node in this step
ClientPollStep(message) ==
    log' = Append(log, [from |-> message.from, packet |-> message.packet, is_server |-> FALSE])

\* the peer's reply to the handshake of Node::connect has come in over the
\* client and the handshake handler had nothing to refuse in it
ReplyHandshakeReceived(from) ==
    \E i \in 1..Len(ClientLog) :
        ClientLog[i].from = from /\ ValidHandshake(ClientLog[i])

\* C36: on a node that is not a seed node, a DATA packet with the node's
\* network id and a version of at least MINIMUM_VERSION that arrives over an
\* outbound (client) connection, after the node has sent its HANDSHAKE and
\* received the peer's reply HANDSHAKE, is pushed to the application queue
\* exactly once.
C36_ClientDataDelivered ==
    [][\A message \in ClientEnvelopes :
          /\ ClientPollStep(message)
          /\ ~m_seed_mode
          /\ message.packet.type = "DATA"
          /\ message.packet.network_id = m_network_id
          /\ message.packet.version >= MINIMUM_VERSION
          /\ ReplyHandshakeReceived(message.from)
          => m_messages' = Append(m_messages, [from |-> message.from,
                                               packet |-> message.packet,
                                               is_server |-> FALSE])]_vars

\* C36 witness: the node is no seed node, the poller has taken the reply
\* handshake of a peer and then a data packet of it from a client, and the
\* application queue is empty
C36_Witness ==
    /\ ~m_seed_mode
    /\ Len(log) = 2
    /\ ~log[1].is_server /\ ValidHandshake(log[1])
    /\ ~log[2].is_server /\ log[2].from = log[1].from
    /\ log[2].packet.type = "DATA" /\ log[2].packet.network_id = m_network_id
    /\ log[2].packet.version >= MINIMUM_VERSION
    /\ m_messages = <<>>

(***************************************************************************)
(* The server evicts a connection                                          *)
(***************************************************************************)
\* the well-formed packets of two peers, as the ROUTER socket delivers them
PeerEnvelopes ==
    {[from |-> from, packet |-> packet] : from \in {"p1", "p2"}, packet \in BasePackets}

\* ZMQServer::outgoing_thread takes a message of the node from the queue
\* and sends it to its destination, or to every connection when it has none;
\* the connections for which the send throws are erased afterwards
OutgoingThread(failed) ==
    /\ m_outgoing_msgs # <<>>
    /\ LET message == Head(m_outgoing_msgs)
           targets == IF message.to = "" THEN m_connections ELSE {message.to}
       IN  /\ failed \subseteq targets
           /\ m_connections' = m_connections \ failed
    /\ m_outgoing_msgs' = Tail(m_outgoing_msgs)
    /\ UNCHANGED <<peerlist, now, ret, m_seed_mode, m_incoming_msgs, m_completed_handshake,
                   m_messages, log, store_vars, pc, instance_vars, more_vars>>

NextEvict ==
    \/ \E message \in PeerEnvelopes : Receive(message)
    \/ Poll
    \/ \E failed \in SUBSET Identities : OutgoingThread(failed)

SpecEvict == InitNode /\ [][NextEvict]_vars

\* C37: every identity in the completed-handshake set is a currently
\* registered inbound connection of the server: when the server evicts a
\* connection after a failed send, its handshake status is cleared too, so
\* that later packets of the evicted identity are treated as pre-handshake.
C37_CompletedAreRegistered ==
    /\ [](m_completed_handshake \subseteq m_connections)
    /\ [][\A identity \in m_connections \ m_connections' :
              identity \notin m_completed_handshake']_vars

\* C37 witness: the send of the reply handshake to a peer failed and the
\* server has evicted the peer, which is still in the completed-handshake set
C37_Witness ==
    /\ "p1" \in m_completed_handshake
    /\ "p1" \notin m_connections
    /\ m_outgoing_msgs = <<>> /\ m_incoming_msgs = <<>>

(***************************************************************************)
(* Node::send_keepalives                                                   *)
(***************************************************************************)
\* the periods of KEEPALIVE_INTERVAL that are followed
MaxPeriods == 2

\* the outbound clients the node may have
Clients == {"c1", "c2"}

\* the first packets of the inbound clients
Handshakes ==
    {[from |-> from, packet |-> Packet("HANDSHAKE", MINIMUM_VERSION, "a", m_network_id, <<>>)] :
        from \in {"p1", "p2"}}

\* what the keepalive thread and the destructor of the node leave alone
keepalive_rest == <<store_vars, pc, instance_vars, peerdb_vars, m_seed_mode, m_incoming_msgs,
                    m_completed_handshake, m_messages, log, old_vars, poller, built, miner>>

\* the envelope of reply(packet): a keepalive without a destination
keepalive_broadcast == [to |-> "", packet |-> reply_keepalive]

\* Node::start: m_running = true, the keepalive thread is started
KeepaliveStart ==
    /\ keepalive.pc = "idle"
    /\ keepalive' = [keepalive EXCEPT !.pc = "sleep", !.m_running = TRUE]
    /\ UNCHANGED <<keepalive_rest, m_outgoing_msgs, m_connections>>

\* Node::connect: a client is added to m_clients
KeepaliveConnect(client) ==
    /\ keepalive.m_running /\ client \notin keepalive.m_clients
    /\ keepalive' = [keepalive EXCEPT !.m_clients = @ \cup {client}]
    /\ UNCHANGED <<keepalive_rest, m_outgoing_msgs, m_connections>>

\* thread_sleep(m_stopping, KEEPALIVE_INTERVAL) returns false: the interval
\* has passed and a period begins
KeepaliveWake ==
    /\ keepalive.pc = "sleep" /\ keepalive.m_running
    /\ keepalive.periods < MaxPeriods
    /\ keepalive' = [keepalive EXCEPT !.pc = "send", !.periods = @ + 1, !.sent = {},
                                      !.replied = FALSE, !.poked = {}]
    /\ UNCHANGED <<keepalive_rest, m_outgoing_msgs, m_connections>>

\* send(packet): m_clients.each(client->send(message))
KeepaliveSend ==
    /\ keepalive.pc = "send"
    /\ keepalive' = [keepalive EXCEPT !.pc = "reply", !.sent = keepalive.m_clients]
    /\ UNCHANGED <<keepalive_rest, m_outgoing_msgs, m_connections>>

\* reply(packet): m_server->send(message).  Through the pointer that ~Node
\* has reset the behaviour is undefined: the call does nothing or the
\* process ends
KeepaliveReply(crash) ==
    /\ keepalive.pc = "reply"
    /\ crash => keepalive.m_server = "released"
    /\ keepalive' = [keepalive EXCEPT !.pc = IF crash THEN "crashed" ELSE "sleep",
                                      !.replied = keepalive.m_server = "alive"]
    /\ m_outgoing_msgs' = IF keepalive.m_server = "alive"
                          THEN Append(m_outgoing_msgs, keepalive_broadcast)
                          ELSE m_outgoing_msgs
    /\ UNCHANGED <<keepalive_rest, m_connections>>

\* ZMQServer::outgoing_thread on a message without a destination: it is sent
\* to every connection, and the connections whose send throws are erased
KeepaliveBroadcast(failed) ==
    /\ keepalive.m_server = "alive"
    /\ m_outgoing_msgs # <<>> /\ Head(m_outgoing_msgs).to = ""
    /\ failed \subseteq m_connections
    /\ m_outgoing_msgs' = Tail(m_outgoing_msgs)
    /\ m_connections' = m_connections \ failed
    /\ keepalive' = [keepalive EXCEPT !.poked = m_connections]
    /\ UNCHANGED keepalive_rest

\* while (m_running) or thread_sleep(m_stopping, ...) ends the loop
KeepaliveExit ==
    /\ keepalive.pc = "sleep" /\ ~keepalive.m_running
    /\ keepalive' = [keepalive EXCEPT !.pc = "exited"]
    /\ UNCHANGED <<keepalive_rest, m_outgoing_msgs, m_connections>>

\* ~Node: m_running = false; m_stopping.notify_all()
NodeSignal ==
    /\ keepalive.m_running /\ keepalive.pc # "crashed"
    /\ keepalive' = [keepalive EXCEPT !.m_running = FALSE, !.dtor = "reset"]
    /\ UNCHANGED <<keepalive_rest, m_outgoing_msgs, m_connections>>

\* ~Node: m_server.reset()
NodeReset ==
    /\ keepalive.dtor = "reset" /\ keepalive.pc # "crashed"
    /\ keepalive' = [keepalive EXCEPT !.m_server = "released", !.dtor = "clear"]
    /\ UNCHANGED <<keepalive_rest, m_outgoing_msgs, m_connections>>

\* ~Node: m_clients.clear()
NodeClear ==
    /\ keepalive.dtor = "clear" /\ keepalive.pc # "crashed"
    /\ keepalive' = [keepalive EXCEPT !.m_clients = {}, !.dtor = "join"]
    /\ UNCHANGED <<keepalive_rest, m_outgoing_msgs, m_connections>>

\* ~Node: m_keepalive_thread.join()
NodeJoined ==
    /\ keepalive.dtor = "join" /\ keepalive.pc = "exited"
    /\ keepalive' = [keepalive EXCEPT !.dtor = "done"]
    /\ UNCHANGED <<keepalive_rest, m_outgoing_msgs, m_connections>>

NextKeepalive ==
    \/ KeepaliveStart
    \/ \E client \in Clients : KeepaliveConnect(client)
    \/ \E message \in Handshakes : Receive(message)
    \/ KeepaliveWake
    \/ KeepaliveSend
    \/ \E crash \in BOOLEAN : KeepaliveReply(crash)
    \/ \E failed \in SUBSET Identities : KeepaliveBroadcast(failed)
    \/ KeepaliveExit
    \/ NodeSignal
    \/ NodeReset
    \/ NodeClear
    \/ NodeJoined

\* the keepalive thread, the writer thread of the server and the thread in
\* ~Node each go on when they can
SpecKeepalive ==
    /\ InitNode /\ [][NextKeepalive]_vars
    /\ WF_vars(KeepaliveSend) /\ WF_vars(\E crash \in BOOLEAN : KeepaliveReply(crash))
    /\ WF_vars(KeepaliveExit)
    /\ WF_vars(\E failed \in SUBSET Identities : KeepaliveBroadcast(failed))
    /\ WF_vars(NodeReset) /\ WF_vars(NodeClear) /\ WF_vars(NodeJoined)

\* in a period that passes while the node runs, the keepalive is handed to
\* every outbound client and queued for the server, and the server sends it
\* to every registered inbound client
C38_EveryPeriodSends ==
    /\ [][keepalive.pc = "send" /\ keepalive'.pc # "send" /\ keepalive.dtor = "none"
              => keepalive'.sent = keepalive.m_clients]_vars
    /\ [][keepalive.pc = "reply" /\ keepalive'.pc # "reply" /\ keepalive.dtor = "none"
              => /\ keepalive'.pc = "sleep"
                 /\ m_outgoing_msgs' = Append(m_outgoing_msgs, keepalive_broadcast)]_vars
    /\ [][Len(m_outgoing_msgs') < Len(m_outgoing_msgs)
              => keepalive'.poked = m_connections]_vars

\* once shutdown is signalled the loop exits
C38_StopsAfterSignal == [](~keepalive.m_running /\ keepalive.dtor # "none"
                              => <>(keepalive.pc = "exited"))

\* C38: while the node is running, in every KEEPALIVE_INTERVAL period a
\* KEEPALIVE is sent to every outbound client and, through the server
\* ROUTER, to every registered inbound client; once shutdown is signalled
\* the keepalive loop stops sending and exits.
C38_KeepaliveLoop == C38_EveryPeriodSends /\ C38_StopsAfterSignal

\* C38 witness: shutdown was signalled while the keepalive thread was in the
\* body of its loop, the thread has handed the keepalive to the clients and
\* then called the server through the pointer ~Node had reset, and the
\* process has ended there, the loop never left
C38_Witness ==
    /\ keepalive.pc = "crashed"
    /\ ~keepalive.m_running /\ keepalive.m_server = "released"
    /\ keepalive.periods > 0

(***************************************************************************)
(* block_t: producer_sign, validator_sign and validate_construction        *)
(***************************************************************************)
\* the secret keys that sign
MaxSecretKey == 3

SecretKeys == 1..MaxSecretKey

\* Crypto::secret_key_to_public_key
secret_key_to_public_key(secret_key) == 10 + secret_key

PublicKeys == {secret_key_to_public_key(secret_key) : secret_key \in SecretKeys}

\* Crypto::Signature::generate_signature: the signature names the key pair
\* and the digest it was made for
generate_signature(message_digest, secret_key) ==
    [key |-> secret_key_to_public_key(secret_key), digest |-> message_digest]

\* Crypto::Signature::check_signature
check_signature(message_digest, public_key, signature) ==
    signature.key = public_key /\ signature.digest = message_digest

\* has_producer of block_t::serialize
has_producer(block) ==
    block.producer_public_key # 0 /\ block.producer_signature # NoSignature

\* block_t::message_digest(BLOCK_DIGEST_PRODUCER): the hash of the fields in
\* front of the producer
producer_digest(block) == <<"producer", block.reward_outputs>>

\* block_t::message_digest(BLOCK_DIGEST_VALIDATOR): the producer's key and
\* signature are hashed too; serialize throws when there is no producer
validator_digest(block) ==
    <<"validator", block.reward_outputs, block.producer_public_key, block.producer_signature>>

\* the keys of validator_signatures
validators(block) == DOMAIN block.validator_signatures

\* validator_signatures.insert({public_key, signature}) unless the key is there
insert_signature(block, public_key, signature) ==
    IF public_key \in validators(block) THEN block
    ELSE [block EXCEPT !.validator_signatures =
              [k \in validators(block) \cup {public_key} |->
                   IF k = public_key THEN signature ELSE block.validator_signatures[k]]]

\* block_t::producer_sign
producer_sign(block, secret_key) ==
    [block EXCEPT !.producer_public_key = secret_key_to_public_key(secret_key),
                  !.producer_signature = generate_signature(producer_digest(block), secret_key)]

\* block_t::validator_sign; the digest cannot be made without a producer
validator_sign(block, secret_key) ==
    insert_signature(block, secret_key_to_public_key(secret_key),
                     generate_signature(validator_digest(block), secret_key))

\* block_t::append_validator_signature
append_validator_signature(block, public_key, signature) ==
    insert_signature(block, public_key, signature)

\* block_t::validate_producer_signature
validate_producer_signature(block) ==
    check_signature(producer_digest(block), block.producer_public_key, block.producer_signature)

\* block_t::validate_validator_signatures; without a producer the digest throws
validate_validator_signatures(block) ==
    /\ validators(block) # {}
    /\ has_producer(block)
    /\ \A public_key \in validators(block) :
           check_signature(validator_digest(block), public_key,
                           block.validator_signatures[public_key])

\* a validate_construction that lets the producer validate its own block
validate_construction_own(block) ==
    /\ block.reward_outputs > 0
    /\ validate_producer_signature(block)
    /\ validate_validator_signatures(block)

\* block_t::validate_construction
validate_construction(block) ==
    /\ block.reward_outputs > 0
    /\ block.producer_public_key \notin validators(block)
    /\ validate_producer_signature(block)
    /\ validate_validator_signatures(block)

\* the signatures that can be handed to append_validator_signature: those the
\* key holders can make for the block as it is, and an empty one
Signatures(block) ==
    {NoSignature}
    \cup {generate_signature(message_digest, secret_key) :
              message_digest \in {producer_digest(block), validator_digest(block)},
              secret_key \in SecretKeys}

built_rest == <<base_vars, old_vars, poller, keepalive, miner>>

\* a block is made, with a reward transaction with or without outputs
BlockNew(outputs) ==
    /\ built.pc = "idle"
    /\ built' = [pc |-> "building", block |-> [DefaultBlock EXCEPT !.reward_outputs = outputs],
                 thrown |-> FALSE, valid |-> FALSE]
    /\ UNCHANGED built_rest

\* a call that changes the block
Built(block, thrown_) ==
    /\ built' = [pc |-> "building", block |-> block, thrown |-> thrown_, valid |-> FALSE]
    /\ UNCHANGED built_rest

BlockProducerSign(secret_key) ==
    /\ built.pc # "idle"
    /\ Built(producer_sign(built.block, secret_key), FALSE)

\* validator_sign throws out of message_digest when no producer has signed
BlockValidatorSign(secret_key) ==
    /\ built.pc # "idle"
    /\ IF has_producer(built.block)
       THEN Built(validator_sign(built.block, secret_key), FALSE)
       ELSE Built(built.block, TRUE)

BlockAppendValidatorSignature(public_key, signature) ==
    /\ built.pc # "idle"
    /\ Built(append_validator_signature(built.block, public_key, signature), FALSE)

\* validate_construction is asked; without a producer and with a validator
\* signature the digest throws, which is no acceptance
BlockValidate ==
    /\ built.pc = "building"
    /\ built' = [built EXCEPT !.pc = "validated", !.thrown = FALSE,
                              !.valid = validate_construction(built.block)]
    /\ UNCHANGED built_rest

NextBlock ==
    \/ \E outputs \in 0..1 : BlockNew(outputs)
    \/ \E secret_key \in SecretKeys : BlockProducerSign(secret_key)
    \/ \E secret_key \in SecretKeys : BlockValidatorSign(secret_key)
    \/ \E public_key \in PublicKeys : \E signature \in Signatures(built.block) :
           BlockAppendValidatorSignature(public_key, signature)
    \/ BlockValidate

SpecBlock == Init /\ [][NextBlock]_vars

\* C39: a block is accepted as validly constructed only if the producer's
\* public key does not appear among validator_signatures and
\* validator_signatures holds at least one signature: no sequence of
\* producer_sign, validator_sign and append_validator_signature calls yields
\* a block that passes validation with the producer counted as a validator
\* or with no validator signature.
C39_ProducerIsNoValidator ==
    built.pc = "validated" /\ built.valid =>
        /\ built.block.producer_public_key \notin validators(built.block)
        /\ validators(built.block) # {}

\* C39 witness: a block signed by a producer and by two other keys as
\* validators has been accepted
C39_Witness ==
    /\ built.pc = "validated" /\ built.valid
    /\ Cardinality(validators(built.block)) = 2

\* a block in which the producer has signed as a validator too, with
\* signatures that all verify, is refused
C39_OwnBlockRefused ==
    /\ built.pc = "validated"
    /\ built.block.producer_public_key \in validators(built.block)
    /\ validate_construction_own(built.block)
    /\ ~built.valid

(***************************************************************************)
(* mine: the search for a nonce                                            *)
(***************************************************************************)
\* the most leading zeros a hash of the model has
MaxZeros == 2

\* hash.leading_zeros() for every nonce
PowTables == [Nonces -> 0..MaxZeros]

\* the targets asked for, one of them beyond every hash
Targets == 0..(MaxZeros + 1)

miner_rest == <<base_vars, old_vars, poller, keepalive, built>>

\* pow_hash().leading_zeros() of the transaction as it is
pow_hash(tx) == tx.pow_zeros[tx.nonce]

\* a field other than the nonce is set (the test sets tx.public_key): the
\* hashes of all nonces change
MineSetField(table) ==
    /\ miner.pc \in {"idle", "returned"}
    /\ miner' = [miner EXCEPT !.pc = "idle", !.pow_zeros = table]
    /\ UNCHANGED miner_rest

\* the nonce is set: a deserialized transaction, or an assignment to the field
MineSetNonce(nonce) ==
    /\ miner.pc \in {"idle", "returned"}
    /\ miner' = [miner EXCEPT !.pc = "idle", !.nonce = nonce]
    /\ UNCHANGED miner_rest

\* mine(zeros) up to the loop: the hash of the transaction as it is, the
\* early return, nonce = 0
MineEnter(zeros) ==
    /\ miner.pc \in {"idle", "returned"}
    /\ miner' =
           IF pow_hash(miner) >= zeros
           THEN [miner EXCEPT !.pc = "returned", !.zeros = zeros, !.hash = pow_hash(miner),
                              !.tried = <<miner.nonce>>, !.result = TRUE]
           ELSE [miner EXCEPT !.pc = "loop", !.zeros = zeros, !.hash = pow_hash(miner),
                              !.tried = <<miner.nonce>>, !.nonce = 0]
    /\ UNCHANGED miner_rest

\* one test of the while condition, with the body or with the return
MineLoop ==
    /\ miner.pc = "loop"
    /\ miner' =
           IF miner.hash < miner.zeros /\ miner.nonce # UINT64_MAX
           THEN LET next == [miner EXCEPT !.nonce = (miner.nonce + 1) % (2 ^ NonceBits)]
                IN  [next EXCEPT !.hash = pow_hash(next), !.tried = Append(miner.tried, next.nonce)]
           ELSE [miner EXCEPT !.pc = "returned", !.result = miner.hash >= miner.zeros]
    /\ UNCHANGED miner_rest

NextMine ==
    \/ \E table \in PowTables : MineSetField(table)
    \/ \E nonce \in Nonces : MineSetNonce(nonce)
    \/ \E zeros \in Targets : MineEnter(zeros)
    \/ MineLoop

SpecMine == Init /\ [][NextMine]_vars /\ WF_vars(MineLoop)

\* the first nonce whose hash meets the target, UINT64_MAX when none does
first_nonce(tx, zeros) ==
    IF \E n \in Nonces : tx.pow_zeros[n] >= zeros
    THEN CHOOSE n \in Nonces :
             /\ tx.pow_zeros[n] >= zeros
             /\ \A m \in 0..(n - 1) : tx.pow_zeros[m] < zeros
    ELSE UINT64_MAX

\* mine returns in this step
MineReturns == miner.pc # "returned" /\ miner'.pc = "returned"

\* every call of mine returns
C40_MineTerminates == (miner.pc = "loop") ~> (miner.pc = "returned")

\* mine returns true exactly when the hash at the nonce it leaves meets the
\* target
C40_ResultIffTarget ==
    miner.pc = "returned" => (miner.result <=> pow_hash(miner) >= miner.zeros)

\* the nonces whose hash mine has computed are 0, 1, 2, ... up to the one it
\* leaves, which is the first to meet the target or UINT64_MAX
C40_IncreasingFromZero ==
    [][MineReturns =>
          /\ miner'.tried = [i \in 1..(miner'.nonce + 1) |-> i - 1]
          /\ miner'.nonce = first_nonce(miner', miner'.zeros)]_vars

\* called with the nonce at 0, as the constructor leaves it, mine does try
\* 0, 1, 2, ... and leaves the first nonce that meets the target
C40_FromNonceZero ==
    [][MineReturns /\ miner'.tried[1] = 0 =>
          /\ miner'.tried = [i \in 1..(miner'.nonce + 1) |-> i - 1]
          /\ miner'.nonce = first_nonce(miner', miner'.zeros)]_vars

\* C40: mine(zeros) always terminates: it tries nonces in increasing order
\* starting from 0 and stops at the first nonce whose pow_hash has at least
\* zeros leading zeros or when the nonce reaches 2^64-1, and it returns true
\* if and only if the pow_hash at the final nonce meets the target.
C40_Mine == C40_MineTerminates /\ C40_IncreasingFromZero /\ []C40_ResultIffTarget

\* C40 witness: mine has run through every nonce from 1 and answered false
\* for a transaction whose hash at nonce 0 meets the target
C40_Witness ==
    /\ miner.pc = "returned" /\ ~miner.result
    /\ miner.nonce = UINT64_MAX
    /\ miner.pow_zeros[0] >= miner.zeros
    /\ 0 \notin {miner.tried[i] : i \in 1..Len(miner.tried)}

=============================================================================
